---- MODULE Spec2Model ----
(***************************************************************************)
(* The turn-based conversation server of GermanAI (src/server/server.js;   *)
(* src/public/app.js carries a second copy of the same routes): the        *)
(* in-memory conversation registry, the start / message / end routes and   *)
(* the hourly cleanup timer.                                               *)
(*                                                                         *)
(* Node runs every handler to its next await without interruption, so each *)
(* route is one action per synchronous segment: the part up to the         *)
(* upstream call, and the part that resumes when the call has returned or  *)
(* thrown.                                                                 *)
(*                                                                         *)
(* JavaScript strings are sequences of tokens, so that the empty string is *)
(* the empty sequence and concatenation is \o.                             *)
(***************************************************************************)
EXTENDS Integers, Sequences, FiniteSets, TLC

\* ------------------------------------------------------------------ bounds
\* Number of HTTP requests the clients send in one behaviour.
MaxRequests == 3
\* Number of requests the server handles at the same time.
MaxInFlight == 2
\* The clock stops after this many steps of TimeStep.
MaxTicks == 5
\* the recordings the client processes in one behaviour
MaxRecordings == 3
\* the recordings the client processes at the same time
MaxProcessing == 2
\* the clicks, presses and releases of the user of the real-time client
MaxGestures == 5

\* ------------------------------------------------------- program constants
\* const maxAge = 60 * 60 * 1000
maxAge == 60 * 60 * 1000
\* the delay argument of setInterval
sweepInterval == 60 * 60 * 1000
\* unitNumber > 104
MaxUnit == 104
\* "Skip unit 3 - it doesn't exist" (the real-time client)
GapUnit == 3

\* The clock advances in steps of half the maximum age, so that sessions are
\* created both on and between the instants at which the timer fires.
TimeStep == maxAge \div 2

\* ------------------------------------------------------- JavaScript values
Undefined == [type |-> "undefined"]
Null == [type |-> "null"]
Num(n) == [type |-> "number", value |-> n]
Str(tokens) == [type |-> "string", value |-> tokens]

\* !v
Falsy(v) ==
    \/ v.type = "undefined"
    \/ v.type = "null"
    \/ v.type = "number" /\ v.value = 0
    \/ v.type = "string" /\ v.value = <<>>

\* ------------------------------------------------------------- curriculum
\* curriculum/units.json as loaded at startup; there is no unit 3.
curriculumData ==
    [units |-> <<
        [unit |-> 1,
         vocabulary |-> <<"Hallo", "ich", "heissen">>,
         phrases |-> <<"Wie heisst du?", "Ich heisse ...">>,
         grammar |-> <<"Verb an zweiter Stelle">>,
         communicative_goals |-> <<"sich vorstellen">>],
        [unit |-> 2,
         vocabulary |-> <<"wohnen", "in">>,
         phrases |-> <<"Wo wohnst du?">>,
         grammar |-> <<"W-Fragen">>,
         communicative_goals |-> <<>>]
    >>]

\* Array.prototype.join
RECURSIVE join(_, _)
join(list, sep) ==
    IF list = <<>> THEN <<>>
    ELSE IF Len(list) = 1 THEN <<list[1]>>
    ELSE <<list[1], sep>> \o join(Tail(list), sep)

\* curriculumData.units?.find(u => u.unit === unitNumber): the matching
\* units, in order (find returns the first one, or undefined)
findUnit(unitNumber) ==
    SelectSeq(curriculumData.units,
              LAMBDA u : unitNumber.type = "number" /\ u.unit = unitNumber.value)

\* Mutant of generateSystemPrompt: the vocabulary is cut short after its first
\* entry.
generateSystemPrompt_Summarised(unitNumber) ==
    LET found == findUnit(unitNumber) IN
    IF found = <<>>
    THEN Str(<<"Du bist ein geduldiger Deutschlehrer. Sprich einfach und klar.">>)
    ELSE LET unit == found[1]
             vocabularyList == <<Head(unit.vocabulary), "...">>
             phrasesList == join(unit.phrases, "\n- ")
             grammarRules == join(unit.grammar, "\n- ")
             goals == IF unit.communicative_goals = <<>>
                      THEN <<"Grundlegende Kommunikation">>
                      ELSE join(unit.communicative_goals, ", ")
         IN Str(<<"Du bist ein geduldiger und freundlicher Deutschlehrer fuer Anfaenger.",
                  "WICHTIGE EINSCHRAENKUNGEN:",
                  "Der Lernende ist in Einheit", ToString(unitNumber.value),
                  "Du DARFST NUR die folgenden sprachlichen Elemente verwenden:",
                  "ERLAUBTES VOKABULAR:">>
                \o vocabularyList
                \o <<"ERLAUBTE SAETZE/MUSTER:", "- ">> \o phrasesList
                \o <<"GRAMMATIKREGELN:", "- ">> \o grammarRules
                \o <<"VERHALTENSREGELN:",
                     "1. Verwende NUR Woerter und Strukturen aus dieser Einheit",
                     "2. Halte deine Antworten kurz (1-3 Saetze)",
                     "3. Sprich natuerlich und freundlich",
                     "4. Stelle Fragen, um das Gespraech am Laufen zu halten",
                     "5. Korrigiere Fehler IMPLIZIT durch Wiederholung der richtigen Form",
                     "6. Verwende NIEMALS Vokabular oder Grammatik aus hoeheren Einheiten",
                     "KOMMUNIKATIONSZIELE dieser Einheit:">>
                \o goals
                \o <<"Beginne das Gespraech mit einer einfachen Begruessung oder Frage.">>)

\* generateSystemPrompt: the fallback, or the template with the lists joined
generateSystemPrompt(unitNumber) ==
    LET found == findUnit(unitNumber) IN
    IF found = <<>>
    THEN Str(<<"Du bist ein geduldiger Deutschlehrer. Sprich einfach und klar.">>)
    ELSE LET unit == found[1]
             vocabularyList == join(unit.vocabulary, ", ")
             phrasesList == join(unit.phrases, "\n- ")
             grammarRules == join(unit.grammar, "\n- ")
             goals == IF unit.communicative_goals = <<>>
                      THEN <<"Grundlegende Kommunikation">>
                      ELSE join(unit.communicative_goals, ", ")
         IN Str(<<"Du bist ein geduldiger und freundlicher Deutschlehrer fuer Anfaenger.",
                  "WICHTIGE EINSCHRAENKUNGEN:",
                  "Der Lernende ist in Einheit", ToString(unitNumber.value),
                  "Du DARFST NUR die folgenden sprachlichen Elemente verwenden:",
                  "ERLAUBTES VOKABULAR:">>
                \o vocabularyList
                \o <<"ERLAUBTE SAETZE/MUSTER:", "- ">> \o phrasesList
                \o <<"GRAMMATIKREGELN:", "- ">> \o grammarRules
                \o <<"VERHALTENSREGELN:",
                     "1. Verwende NUR Woerter und Strukturen aus dieser Einheit",
                     "2. Halte deine Antworten kurz (1-3 Saetze)",
                     "3. Sprich natuerlich und freundlich",
                     "4. Stelle Fragen, um das Gespraech am Laufen zu halten",
                     "5. Korrigiere Fehler IMPLIZIT durch Wiederholung der richtigen Form",
                     "6. Verwende NIEMALS Vokabular oder Grammatik aus hoeheren Einheiten",
                     "KOMMUNIKATIONSZIELE dieser Einheit:">>
                \o goals
                \o <<"Beginne das Gespraech mit einer einfachen Begruessung oder Frage.">>)

\* generateSystemInstructions of the real-time client: unitData is the unit
\* object the server returned, or undefined. The fixed paragraphs between the
\* interpolated lines are one token each.
generateSystemInstructions(unitData) ==
    IF unitData = Undefined \/ unitData = Null
    THEN Str(<<"You are a friendly German conversation partner. Speak naturally in German at a beginner level. Keep your responses very short.">>)
    ELSE LET vocab == IF "vocabulary" \in DOMAIN unitData
                      THEN join(unitData.vocabulary, ", ") ELSE <<>>
             phrases == IF "phrases" \in DOMAIN unitData
                        THEN join(unitData.phrases, ", ") ELSE <<>>
             title == IF "title" \in DOMAIN unitData THEN unitData.title ELSE "undefined"
         IN Str(<<"You are a friendly German teacher having natural conversations with students learning Unit",
                  ToString(unitData.unit), ": ", title,
                  "**ALLOWED VOCABULARY - You can ONLY use these words from Unit",
                  ToString(unitData.unit), ":**">>
                \o vocab
                \o <<"**ALLOWED PHRASES:**">>
                \o phrases
                \o <<"**YOUR TASK:** ...",
                     "- Be creative and conversational, but strictly limited to Unit",
                     ToString(unitData.unit), "vocabulary",
                     "**VOCABULARY MAPPINGS (German -> English):** ...",
                     "**STRICT RULES:**",
                     "1. ONLY use words from the Unit", ToString(unitData.unit),
                     "vocabulary list - no exceptions",
                     "2. ... 14. ...",
                     "**GOOD QUESTIONS (Open-ended):** ...",
                     "**BAD QUESTIONS (Yes/No - AVOID THESE):** ...",
                     "**Example responses (COPY THIS BREVITY):** ...",
                     "Create natural, varied sentences using ONLY Unit",
                     ToString(unitData.unit), "vocabulary.">>)

\* ------------------------------------------------------------------ inputs
\* req.body.unitNumber of a start request
UnitInputs ==
    {Undefined, Num(0 - 1), Num(0), Num(1), Num(GapUnit), Num(MaxUnit + 1)}

\* req.body.message of a message request
TextInputs == {Undefined, Str(<<>>), Str(<<"Ich heisse Anna">>)}

\* completion.choices[0].message.content of a successful upstream call
Replies == {Str(<<"Hallo! Wie heisst du?">>)}

\* Math.random().toString(36).substr(2, 9), call after call: the generator is
\* taken not to repeat a value within the requests of one behaviour.
RandomStream ==
    <<"k3x09qz1a", "7fpw2m4tc", "m2c81hd0e", "zq4n6y3ub", "b9t0s5k2r", "h1v7e8w3x">>

\* A non-empty id that no start request produces.
UnknownId == Str(<<"no-such-conversation">>)

\* The handlers that run at the same time.
Slots == 1 .. MaxInFlight

\* ------------------------------------------------------------------- state
VARIABLES
    now,            \* Date.now(), in milliseconds since the server started
    nextSweep,      \* the time at which the setInterval callback fires next
    conversations,  \* the Map: conversationId -> {unitNumber, messages, createdAt}
    heap,           \* the messages arrays, in the order of their allocation
    req,            \* the handlers suspended on an upstream call: body and locals
    last,           \* the request answered last, with its response
    arrived,        \* history: the number of requests received
    created,        \* history: conversationId -> createdAt of every session registered
    ended,          \* history: returned id -> the number of end requests answered for it
    turns,          \* history: per messages array, the message requests answered 200
    uploads,        \* the paths of the files in the uploads/ directory
    client,         \* the page of the turn-based client (src/public/app.js)
    rt              \* the page of the real-time client (src/unnamed/part_001)

vars == <<now, nextSweep, conversations, heap, req, last, arrived, created, ended, turns,
          uploads, client, rt>>

NoResponse == [status |-> 0]

\* A handler slot that serves no request.
IdleRequest ==
    [kind |-> "none", pc |-> "idle",
     unitNumber |-> Undefined, conversationId |-> Undefined, message |-> Undefined,
     messages |-> 0, sent |-> <<>>, calls |-> 0, res |-> NoResponse]

\* The calls of processAudio that run at the same time.
ClientSlots == 1 .. MaxProcessing

\* A call of processAudio that is not running; transcription is what the last
\* call of the slot got from transcribeAudio.
IdleTurn == [pc |-> "idle", transcription |-> Undefined]

\* The page as loaded: overlay hidden, no message shown, nothing fetched, not
\* recording. recorders are the MediaRecorders created so far,
\* microphoneRequests the calls of startRecording that await getUserMedia, held
\* whether the record button is pressed.
LoadedPage ==
    [loading |-> FALSE, statusText |-> "", transcript |-> Undefined,
     conversationHistory |-> <<>>, requests |-> <<>>, recordings |-> 0,
     turn |-> [t \in ClientSlots |-> IdleTurn],
     isRecording |-> FALSE, mediaRecorder |-> Null, recorders |-> <<>>,
     microphoneRequests |-> 0, held |-> FALSE, presses |-> 0, alerts |-> 0]

\* a reference to the n-th object of its kind that the page has created
Obj(n) == [type |-> "object", id |-> n]

\* startConversation of the real-time client when it is not running; unitData,
\* pc and dc are its local variables
IdleStart == [pc |-> "idle", unitData |-> Null, pc_ |-> Null, dc |-> Null]

\* The real-time page as loaded (part_001 lines 267-276): no session, nothing
\* connected, selection screen shown, overlay hidden. connections, channels and
\* tracks are the RTCPeerConnections, data channels and microphone tracks
\* created so far; event is the user's last input; requests and sent record
\* what startConversation fetched and what was sent on a data channel; inbox
\* holds the commits whose transcription the provider has not reported yet.
RealtimePage ==
    [currentUnit |-> Num(1), isSessionActive |-> FALSE,
     peerConnection |-> Null, dataChannel |-> Null, audioElement |-> Null,
     microphoneTrack |-> Null, waitingForResponse |-> FALSE,
     loading |-> FALSE, screen |-> "unitSelection", recordDisabled |-> FALSE,
     statusText |-> "", alerts |-> 0,
     start |-> IdleStart,
     connections |-> <<>>, channels |-> <<>>, tracks |-> <<>>,
     held |-> FALSE, gestures |-> 0, event |-> "load",
     requests |-> <<>>, sent |-> <<>>, inbox |-> <<>>, transcribed |-> {}]

Init ==
    /\ now = 0
    /\ nextSweep = sweepInterval
    /\ conversations = <<>>
    /\ heap = <<>>
    /\ req = [r \in Slots |-> IdleRequest]
    /\ last = IdleRequest
    /\ arrived = 0
    /\ created = <<>>
    /\ ended = <<>>
    /\ turns = <<>>
    /\ uploads = {}
    /\ client = LoadedPage
    /\ rt = RealtimePage

\* A request arrives; if its handler suspends, it does so in the first free slot.
Arrives(r) ==
    /\ arrived < MaxRequests
    /\ req[r].pc = "idle"
    /\ \A q \in Slots : q < r => req[q].pc = "awaiting"

\* Mutant of Answered: the handler returns without sending anything.
Answered_Silent(request, status, json) == [request EXCEPT !.pc = "done"]

\* res.status(status).json(json): the request is answered
Answered(request, status, json) ==
    [request EXCEPT !.pc = "done", !.res = [status |-> status, json |-> json]]

\* ids the clients hold: those a start request has returned
ReturnedIds == DOMAIN created

\* req.body.conversationId of a message or end request
IdInputs == ReturnedIds \cup {UnknownId, Str(<<>>), Undefined}

\* ------------------------------------------------- POST /api/conversation/start
\* !unitNumber || unitNumber < 1 || unitNumber > 104
InvalidUnitNumber(unitNumber) ==
    \/ Falsy(unitNumber)
    \/ unitNumber.type = "number" /\ unitNumber.value < 1
    \/ unitNumber.type = "number" /\ unitNumber.value > MaxUnit

\* Date.now().toString() + Math.random().toString(36).substr(2, 9); every start
\* request that passes validation calls Math.random() once and allocates one
\* messages array, so the arrays count the calls
NewConversationId(time, randomCalls) ==
    Str(<<ToString(time), RandomStream[randomCalls + 1]>>)

\* Mutant of push: the element is put in front (unshift instead of push).
push_Unshift(array, element) == <<element>> \o array

\* array.push(element)
push(array, element) == Append(array, element)

\* Mutant of MapSet: the new entry replaces the map.
MapSet_Replaces(map, key, value) == [k \in {key} |-> value]

\* conversations.set(key, value)
MapSet(map, key, value) ==
    [k \in DOMAIN map \cup {key} |-> IF k = key THEN value ELSE map[k]]

\* Mutant of MapDelete: every entry is removed (clear instead of delete).
MapDelete_Clears(map, key) == <<>>

\* conversations.delete(key)
MapDelete(map, key) == [k \in DOMAIN map \ {key} |-> map[k]]

\* Mutant of CompletionMessages: only the system prompt and the newest message
\* are sent upstream.
CompletionMessages_Windowed(messages) ==
    IF Len(messages) <= 2 THEN messages ELSE <<messages[1], messages[Len(messages)]>>

\* the `messages` option of openai.chat.completions.create: the array itself
CompletionMessages(messages) == messages

\* lines 124-144: validation, id, system prompt, the upstream call is issued
StartBegin(r, unitNumber) ==
    /\ Arrives(r)
    /\ arrived' = arrived + 1
    /\ IF InvalidUnitNumber(unitNumber)
       THEN /\ last' = Answered([IdleRequest EXCEPT !.kind = "start",
                                                      !.unitNumber = unitNumber],
                                  400, [error |-> "Invalid unit number"])
            /\ UNCHANGED <<req, heap, turns>>
       ELSE /\ heap' = push(heap,
                         <<[role |-> "system", content |-> generateSystemPrompt(unitNumber)]>>)
            /\ turns' = push(turns, 0)
            /\ req' = [req EXCEPT ![r] =
                        [IdleRequest EXCEPT
                            !.kind = "start", !.pc = "awaiting", !.unitNumber = unitNumber,
                            !.conversationId = NewConversationId(now, Len(heap)),
                            !.messages = Len(heap) + 1,
                            !.sent = CompletionMessages(heap'[Len(heap) + 1]), !.calls = 1]]
            /\ UNCHANGED last
    /\ UNCHANGED <<now, nextSweep, conversations, created, ended, uploads, client, rt>>

\* Mutant of StartSucceed: the opening line is returned but not pushed to the
\* messages array before the session is stored.
StartSucceed_ForgetsReply(r, aiResponse) ==
    /\ req[r].kind = "start" /\ req[r].pc = "awaiting"
    /\ conversations' = [k \in DOMAIN conversations \cup {req[r].conversationId} |->
                            IF k = req[r].conversationId
                            THEN [unitNumber |-> req[r].unitNumber,
                                  messages |-> req[r].messages,
                                  createdAt |-> now]
                            ELSE conversations[k]]
    /\ created' = [k \in DOMAIN created \cup {req[r].conversationId} |->
                      IF k = req[r].conversationId THEN now ELSE created[k]]
    /\ last' = [req[r] EXCEPT !.pc = "done",
                   !.res = [status |-> 200,
                            json |-> [conversationId |-> req[r].conversationId,
                                      message |-> aiResponse]]]
    /\ req' = [req EXCEPT ![r] = IdleRequest]
    /\ UNCHANGED <<now, nextSweep, heap, arrived, ended, turns, uploads, client, rt>>

\* lines 146-159: the upstream call has returned a completion
StartSucceed(r, aiResponse) ==
    /\ req[r].kind = "start" /\ req[r].pc = "awaiting"
    /\ heap' = [heap EXCEPT ![req[r].messages] =
                 push(@, [role |-> "assistant", content |-> aiResponse])]
    /\ conversations' = MapSet(conversations, req[r].conversationId,
                               [unitNumber |-> req[r].unitNumber,
                                messages |-> req[r].messages,
                                createdAt |-> now])
    /\ created' = MapSet(created, req[r].conversationId, now)
    /\ last' = Answered(req[r], 200, [conversationId |-> req[r].conversationId,
                                      message |-> aiResponse])
    /\ req' = [req EXCEPT ![r] = IdleRequest]
    /\ UNCHANGED <<now, nextSweep, arrived, ended, turns, uploads, client, rt>>

\* Mutant of StartFail: the session was stored before the upstream call was
\* awaited, and stays stored when the call throws.
StartFail_Registers(r) ==
    /\ req[r].kind = "start" /\ req[r].pc = "awaiting"
    /\ conversations' = [k \in DOMAIN conversations \cup {req[r].conversationId} |->
                            IF k = req[r].conversationId
                            THEN [unitNumber |-> req[r].unitNumber,
                                  messages |-> req[r].messages,
                                  createdAt |-> now]
                            ELSE conversations[k]]
    /\ last' = [req[r] EXCEPT !.pc = "done",
                   !.res = [status |-> 500,
                            json |-> [error |-> "Failed to start conversation"]]]
    /\ req' = [req EXCEPT ![r] = IdleRequest]
    /\ UNCHANGED <<now, nextSweep, heap, arrived, created, ended, turns, uploads, client, rt>>

\* lines 161-164: the upstream call has thrown (error or timeout)
StartFail(r) ==
    /\ req[r].kind = "start" /\ req[r].pc = "awaiting"
    /\ last' = Answered(req[r], 500, [error |-> "Failed to start conversation"])
    /\ req' = [req EXCEPT ![r] = IdleRequest]
    /\ UNCHANGED <<now, nextSweep, conversations, heap, arrived, created, ended, turns, uploads, client, rt>>

\* ----------------------------------------------- POST /api/conversation/message
\* Mutant of MessageBegin: a session older than maxAge is answered 404.
MessageBegin_ChecksAge(r, conversationId, message) ==
    /\ Arrives(r)
    /\ arrived' = arrived + 1
    /\ LET request == [IdleRequest EXCEPT !.kind = "message",
                                          !.conversationId = conversationId,
                                          !.message = message]
       IN
       IF Falsy(conversationId) \/ Falsy(message)
       THEN /\ last' = Answered(request, 400,
                                  [error |-> "Missing conversationId or message"])
            /\ UNCHANGED <<req, heap>>
       ELSE IF \/ conversationId \notin DOMAIN conversations
               \/ now - conversations[conversationId].createdAt > maxAge
       THEN /\ last' = Answered(request, 404, [error |-> "Conversation not found"])
            /\ UNCHANGED <<req, heap>>
       ELSE LET conversation == conversations[conversationId] IN
            /\ heap' = [heap EXCEPT ![conversation.messages] =
                         push(@, [role |-> "user", content |-> message])]
            /\ req' = [req EXCEPT ![r] =
                        [request EXCEPT !.pc = "awaiting",
                                        !.messages = conversation.messages,
                                        !.sent = CompletionMessages(heap'[conversation.messages]),
                                        !.calls = 1]]
            /\ UNCHANGED last
    /\ UNCHANGED <<now, nextSweep, conversations, created, ended, turns, uploads, client, rt>>

\* Mutant of MessageBegin: the session is looked up before the body is
\* validated.
MessageBegin_LooksUpFirst(r, conversationId, message) ==
    /\ Arrives(r)
    /\ arrived' = arrived + 1
    /\ LET request == [IdleRequest EXCEPT !.kind = "message",
                                          !.conversationId = conversationId,
                                          !.message = message]
       IN
       IF conversationId \notin DOMAIN conversations
       THEN /\ last' = Answered(request, 404, [error |-> "Conversation not found"])
            /\ UNCHANGED <<req, heap>>
       ELSE IF Falsy(conversationId) \/ Falsy(message)
       THEN /\ last' = Answered(request, 400,
                                  [error |-> "Missing conversationId or message"])
            /\ UNCHANGED <<req, heap>>
       ELSE LET conversation == conversations[conversationId] IN
            /\ heap' = [heap EXCEPT ![conversation.messages] =
                         push(@, [role |-> "user", content |-> message])]
            /\ req' = [req EXCEPT ![r] =
                        [request EXCEPT !.pc = "awaiting",
                                        !.messages = conversation.messages,
                                        !.sent = CompletionMessages(heap'[conversation.messages]),
                                        !.calls = 1]]
            /\ UNCHANGED last
    /\ UNCHANGED <<now, nextSweep, conversations, created, ended, turns, uploads, client, rt>>

\* lines 205-226: validation, lookup, the user message is pushed, the upstream
\* call is issued
MessageBegin(r, conversationId, message) ==
    /\ Arrives(r)
    /\ arrived' = arrived + 1
    /\ LET request == [IdleRequest EXCEPT !.kind = "message",
                                          !.conversationId = conversationId,
                                          !.message = message]
       IN
       IF Falsy(conversationId) \/ Falsy(message)
       THEN /\ last' = Answered(request, 400,
                                  [error |-> "Missing conversationId or message"])
            /\ UNCHANGED <<req, heap>>
       ELSE IF conversationId \notin DOMAIN conversations
       THEN /\ last' = Answered(request, 404, [error |-> "Conversation not found"])
            /\ UNCHANGED <<req, heap>>
       ELSE LET conversation == conversations[conversationId] IN
            /\ heap' = [heap EXCEPT ![conversation.messages] =
                         push(@, [role |-> "user", content |-> message])]
            /\ req' = [req EXCEPT ![r] =
                        [request EXCEPT !.pc = "awaiting",
                                        !.messages = conversation.messages,
                                        !.sent = CompletionMessages(heap'[conversation.messages]),
                                        !.calls = 1]]
            /\ UNCHANGED last
    /\ UNCHANGED <<now, nextSweep, conversations, created, ended, turns, uploads, client, rt>>

\* Mutant of MessageSucceed: the handler stores its session again after it has
\* appended the reply.
MessageSucceed_Reinserts(r, aiResponse) ==
    /\ req[r].kind = "message" /\ req[r].pc = "awaiting"
    /\ heap' = [heap EXCEPT ![req[r].messages] =
                 push(@, [role |-> "assistant", content |-> aiResponse])]
    /\ turns' = [turns EXCEPT ![req[r].messages] = @ + 1]
    /\ last' = Answered(req[r], 200, [response |-> aiResponse])
    /\ req' = [req EXCEPT ![r] = IdleRequest]
    /\ conversations' = MapSet(conversations, req[r].conversationId,
                               [unitNumber |-> Num(1),
                                messages |-> req[r].messages,
                                createdAt |-> created[req[r].conversationId]])
    /\ UNCHANGED <<now, nextSweep, arrived, created, ended, uploads, client, rt>>

\* Mutant of MessageSucceed: a completed turn renews the session's createdAt.
MessageSucceed_Renews(r, aiResponse) ==
    /\ req[r].kind = "message" /\ req[r].pc = "awaiting"
    /\ heap' = [heap EXCEPT ![req[r].messages] =
                 push(@, [role |-> "assistant", content |-> aiResponse])]
    /\ turns' = [turns EXCEPT ![req[r].messages] = @ + 1]
    /\ last' = Answered(req[r], 200, [response |-> aiResponse])
    /\ req' = [req EXCEPT ![r] = IdleRequest]
    /\ conversations' =
          IF req[r].conversationId \in DOMAIN conversations
          THEN [conversations EXCEPT ![req[r].conversationId].createdAt = now]
          ELSE conversations
    /\ UNCHANGED <<now, nextSweep, arrived, created, ended, uploads, client, rt>>

\* lines 228-231: the upstream call has returned a completion
MessageSucceed(r, aiResponse) ==
    /\ req[r].kind = "message" /\ req[r].pc = "awaiting"
    /\ heap' = [heap EXCEPT ![req[r].messages] =
                 push(@, [role |-> "assistant", content |-> aiResponse])]
    /\ turns' = [turns EXCEPT ![req[r].messages] = @ + 1]
    /\ last' = Answered(req[r], 200, [response |-> aiResponse])
    /\ req' = [req EXCEPT ![r] = IdleRequest]
    /\ UNCHANGED <<now, nextSweep, conversations, arrived, created, ended, uploads, client, rt>>

\* Mutant of MessageFail: the upstream call is issued a second time before
\* the request is given up.
MessageFail_Retries(r) ==
    /\ req[r].kind = "message" /\ req[r].pc = "awaiting"
    /\ IF req[r].calls < 2
       THEN /\ req' = [req EXCEPT ![r].calls = @ + 1]
            /\ UNCHANGED last
       ELSE /\ last' = Answered(req[r], 500, [error |-> "Failed to process message"])
            /\ req' = [req EXCEPT ![r] = IdleRequest]
    /\ UNCHANGED <<now, nextSweep, conversations, heap, arrived, created, ended, turns, uploads, client, rt>>

\* lines 233-236: the upstream call has thrown (error or timeout)
MessageFail(r) ==
    /\ req[r].kind = "message" /\ req[r].pc = "awaiting"
    /\ last' = Answered(req[r], 500, [error |-> "Failed to process message"])
    /\ req' = [req EXCEPT ![r] = IdleRequest]
    /\ UNCHANGED <<now, nextSweep, conversations, heap, arrived, created, ended, turns, uploads, client, rt>>

\* --------------------------------------------------- POST /api/conversation/end
\* Mutant of EndRegistry: the route answers without deleting the session.
EndRegistry_Keeps(map, conversationId) == map

\* the registry after the route has run
EndRegistry(map, conversationId) ==
    IF ~Falsy(conversationId) /\ conversationId \in DOMAIN map
    THEN MapDelete(map, conversationId)
    ELSE map

\* Mutant of EndResponse: an id that is not registered is answered 404.
EndResponse_NotFound(map, conversationId) ==
    IF conversationId \in DOMAIN map
    THEN [status |-> 200, json |-> [success |-> TRUE]]
    ELSE [status |-> 404, json |-> [error |-> "Conversation not found"]]

\* res.json({ success: true })
EndResponse(map, conversationId) == [status |-> 200, json |-> [success |-> TRUE]]

\* The route has no await: it runs whatever other handlers are suspended.
End(conversationId) ==
    /\ arrived < MaxRequests
    /\ arrived' = arrived + 1
    /\ conversations' = EndRegistry(conversations, conversationId)
    /\ ended' = IF conversationId \in ReturnedIds
                THEN MapSet(ended, conversationId,
                            IF conversationId \in DOMAIN ended
                            THEN ended[conversationId] + 1 ELSE 1)
                ELSE ended
    /\ last' = [IdleRequest EXCEPT
                    !.kind = "end", !.pc = "done", !.conversationId = conversationId,
                    !.res = EndResponse(conversations, conversationId)]
    /\ UNCHANGED <<now, nextSweep, heap, req, created, turns, uploads, client, rt>>

\* ------------------------------------------------------------ cleanup timer
\* Mutant of Expired: the operands of the subtraction are swapped.
Expired_Swapped(conversation, time) == conversation.createdAt - time > maxAge

\* now - conversation.createdAt > maxAge
Expired(conversation, time) == time - conversation.createdAt > maxAge

\* Mutant of SweepRegistry: the sessions that are kept get a fresh createdAt.
SweepRegistry_Renews(map, time) ==
    [k \in {id \in DOMAIN map : ~(time - map[id].createdAt > maxAge)} |->
        [map[k] EXCEPT !.createdAt = time]]

\* Mutant of SweepRegistry: the callback removes nothing.
SweepRegistry_KeepsAll(map, time) == map

\* the registry after one run of the setInterval callback
SweepRegistry(map, time) ==
    [k \in {id \in DOMAIN map : ~Expired(map[id], time)} |-> map[k]]

\* The callback fires when the clock reaches the timer's deadline.
Sweep ==
    /\ now = nextSweep
    /\ conversations' = SweepRegistry(conversations, now)
    /\ nextSweep' = nextSweep + sweepInterval
    /\ UNCHANGED <<now, heap, req, last, arrived, created, ended, turns, uploads, client, rt>>

\* Time passes, but not beyond the deadline of the timer while it is pending.
\* An upstream call returns or times out long before one TimeStep has passed.
Tick ==
    /\ now + TimeStep <= MaxTicks * TimeStep
    /\ now + TimeStep <= nextSweep
    /\ \A r \in Slots : req[r].pc = "idle"
    /\ now' = now + TimeStep
    /\ UNCHANGED <<nextSweep, conversations, heap, req, last, arrived, created, ended, turns, uploads, client, rt>>

Next ==
    \/ \E r \in Slots, unitNumber \in UnitInputs : StartBegin(r, unitNumber)
    \/ \E r \in Slots, aiResponse \in Replies : StartSucceed(r, aiResponse)
    \/ \E r \in Slots : StartFail(r)
    \/ \E r \in Slots, conversationId \in IdInputs, message \in TextInputs :
          MessageBegin(r, conversationId, message)
    \/ \E r \in Slots, aiResponse \in Replies : MessageSucceed(r, aiResponse)
    \/ \E r \in Slots : MessageFail(r)
    \/ \E conversationId \in IdInputs : End(conversationId)
    \/ Sweep
    \/ Tick

Spec == Init /\ [][Next]_vars

\* ============================================ speech, audio and token routes
\* The routes below do not touch the registry; they share the handler slots
\* with the conversation routes. The speech-to-text and token routes are
\* those of src/public/app.js; src/server/server.js has the speech-to-text
\* route without the rename, and no token route.

\* process.env, as loaded by dotenv.config()
process_env == [OPENAI_API_KEY |-> "sk-proj-server-key"]

\* the name multer gives the n-th upload it stores under dest: 'uploads/';
\* the names are taken not to repeat
UploadNames ==
    <<"0c4f1e7a", "9b2d6a03", "e81c5f44", "47aa30d9", "d5e0917b", "6f38c2b1">>

\* req.file of the request that arrives next: absent, or the stored upload
FileInputs ==
    {Undefined, [path |-> Str(<<"uploads/", UploadNames[arrived + 1]>>)]}

\* transcription.text of a successful upstream call: recognised speech, or
\* nothing for empty or silent audio
Transcriptions == {Str(<<"Ich heisse Anna">>), Str(<<>>)}

\* A handler of one of these routes, not yet running.
MediaRequest(kind) ==
    [kind |-> kind, pc |-> "idle",
     unitNumber |-> Undefined, conversationId |-> Undefined, message |-> Undefined,
     messages |-> 0, sent |-> <<>>, calls |-> 0, res |-> NoResponse,
     file |-> Undefined, text |-> Undefined, options |-> Undefined,
     result |-> Undefined]

\* fs.existsSync(path)
existsSync(files, path) == path \in files

\* fs.unlinkSync(path)
unlinkSync(files, path) == files \ {path}

\* fs.renameSync(oldPath, newPath)
renameSync(files, oldPath, newPath) == (files \ {oldPath}) \cup {newPath}

\* audioPath + '.webm'
RenamedPath(audioPath) == Str(audioPath.value \o <<".webm">>)

\* ---------------------------------------------------- POST /api/speech-to-text
\* the success path: the renamed file is removed if it is there
SttCleanup(files, file) ==
    IF existsSync(files, RenamedPath(file.path))
    THEN unlinkSync(files, RenamedPath(file.path))
    ELSE files

\* Mutant of SttCatchCleanup: the catch block removes nothing.
SttCatchCleanup_Leaves(files, file) == files

\* the catch block: the original and the renamed file are removed if they
\* are there
SttCatchCleanup(files, file) ==
    IF file = Undefined
    THEN files
    ELSE LET original == IF existsSync(files, file.path)
                         THEN unlinkSync(files, file.path)
                         ELSE files
         IN  IF existsSync(original, RenamedPath(file.path))
             THEN unlinkSync(original, RenamedPath(file.path))
             ELSE original

\* src/server/server.js, success path: fs.unlinkSync(req.file.path)
ServerSttCleanup(files, file) == unlinkSync(files, file.path)

\* src/server/server.js, catch block
ServerSttCatchCleanup(files, file) ==
    IF file # Undefined /\ existsSync(files, file.path)
    THEN unlinkSync(files, file.path)
    ELSE files

\* multer has stored the upload; the handler checks req.file, renames the file
\* and issues the upstream call. renameSync throws when renamed is FALSE.
SttBegin(r, file, renamed) ==
    /\ Arrives(r)
    /\ arrived' = arrived + 1
    /\ LET request == [MediaRequest("stt") EXCEPT !.file = file]
           stored  == IF file = Undefined THEN uploads ELSE uploads \cup {file.path}
       IN
       IF file = Undefined
       THEN /\ last' = Answered(request, 400, [error |-> "No audio file provided"])
            /\ UNCHANGED <<req, uploads, client, rt>>
       ELSE IF ~renamed
       THEN /\ uploads' = SttCatchCleanup(stored, file)
            /\ last' = Answered(request, 500, [error |-> "Failed to transcribe audio"])
            /\ UNCHANGED req
       ELSE /\ uploads' = renameSync(stored, file.path, RenamedPath(file.path))
            /\ req' = [req EXCEPT ![r] =
                        [request EXCEPT !.pc = "awaiting", !.calls = 1]]
            /\ UNCHANGED last
    /\ UNCHANGED <<now, nextSweep, conversations, heap, created, ended, turns, client, rt>>

\* the upstream call has returned a transcription
SttSucceed(r, text) ==
    /\ req[r].kind = "stt" /\ req[r].pc = "awaiting"
    /\ uploads' = SttCleanup(uploads, req[r].file)
    /\ last' = Answered(req[r], 200, [text |-> text])
    /\ req' = [req EXCEPT ![r] = IdleRequest]
    /\ UNCHANGED <<now, nextSweep, conversations, heap, arrived, created, ended, turns, client, rt>>

\* the upstream call has thrown
SttFail(r) ==
    /\ req[r].kind = "stt" /\ req[r].pc = "awaiting"
    /\ uploads' = SttCatchCleanup(uploads, req[r].file)
    /\ last' = Answered(req[r], 500, [error |-> "Failed to transcribe audio"])
    /\ req' = [req EXCEPT ![r] = IdleRequest]
    /\ UNCHANGED <<now, nextSweep, conversations, heap, arrived, created, ended, turns, client, rt>>

\* ---------------------------------------------------- POST /api/text-to-speech
\* Buffer.from(await mp3.arrayBuffer()): the audio of the text
Speech(text) == [type |-> "buffer", of |-> text.value]

\* validation of req.body.text, the upstream call is issued
TtsBegin(r, text) ==
    /\ Arrives(r)
    /\ arrived' = arrived + 1
    /\ LET request == [MediaRequest("tts") EXCEPT !.text = text] IN
       IF Falsy(text)
       THEN /\ last' = Answered(request, 400, [error |-> "No text provided"])
            /\ UNCHANGED req
       ELSE /\ req' = [req EXCEPT ![r] =
                        [request EXCEPT !.pc = "awaiting", !.calls = 1]]
            /\ UNCHANGED last
    /\ UNCHANGED <<now, nextSweep, conversations, heap, created, ended, turns, uploads, client, rt>>

\* the upstream call has returned the audio: res.send(buffer)
TtsSucceed(r) ==
    /\ req[r].kind = "tts" /\ req[r].pc = "awaiting"
    /\ last' = [req[r] EXCEPT !.pc = "done",
                              !.res = [status |-> 200, send |-> Speech(req[r].text)]]
    /\ req' = [req EXCEPT ![r] = IdleRequest]
    /\ UNCHANGED <<now, nextSweep, conversations, heap, arrived, created, ended, turns,
                   uploads, client, rt>>

\* Mutant of TtsFail: the failed synthesis takes the sessions with it.
TtsFail_DropsSessions(r) ==
    /\ req[r].kind = "tts" /\ req[r].pc = "awaiting"
    /\ conversations' = <<>>
    /\ last' = Answered(req[r], 500, [error |-> "Failed to generate speech"])
    /\ req' = [req EXCEPT ![r] = IdleRequest]
    /\ UNCHANGED <<now, nextSweep, heap, arrived, created, ended, turns, uploads, client, rt>>

\* the upstream call, or reading its body, has thrown
TtsFail(r) ==
    /\ req[r].kind = "tts" /\ req[r].pc = "awaiting"
    /\ last' = Answered(req[r], 500, [error |-> "Failed to generate speech"])
    /\ req' = [req EXCEPT ![r] = IdleRequest]
    /\ UNCHANGED <<now, nextSweep, conversations, heap, arrived, created, ended, turns,
                   uploads, client, rt>>

\* ------------------------------------------------------------------ GET /token
\* the options of https.request: the key travels in the Authorization header
TokenOptions(environment) ==
    [hostname |-> "api.openai.com", path |-> "/v1/realtime/sessions", method |-> "POST",
     headers |-> [Authorization |-> Str(<<"Bearer ", environment.OPENAI_API_KEY>>)]]

\* res.statusCode of the upstream response: the route logs it and nothing else
StatusCodes == {200, 401}

\* the body of the upstream response: a session with its client secret, an
\* error object, or text that is not JSON
TokenBodies ==
    {[json |-> TRUE, object |-> [client_secret |-> [value |-> Str(<<"ek_68af3c">>)]]],
     [json |-> TRUE, object |-> [error |-> [message |-> Str(<<"Incorrect API key provided">>)]]],
     [json |-> FALSE]}

\* what the promise around https.request settles with: a response, or the
\* 'error' event of the request
TokenResults ==
    {[event |-> "end", statusCode |-> c, body |-> b] : c \in StatusCodes, b \in TokenBodies}
        \cup {[event |-> "error", message |-> Str(<<"getaddrinfo ENOTFOUND api.openai.com">>)]}

\* error.message in the catch block
TokenErrorMessage(result) ==
    IF result.event = "error" THEN result.message
    ELSE IF ~result.body.json
    THEN Str(<<"Unexpected token < in JSON at position 0">>)
    ELSE Str(<<"Cannot read properties of undefined (reading 'value')">>)

\* Mutant of TokenResponse: the catch block reports the Authorization header.
TokenResponse_LeaksKey(result) ==
    IF /\ result.event = "end" /\ result.body.json
       /\ "client_secret" \in DOMAIN result.body.object
    THEN [status |-> 200, json |-> [value |-> result.body.object.client_secret.value]]
    ELSE [status |-> 500,
          json |-> [error |-> "Failed to create session token",
                    details |-> TokenOptions(process_env).headers.Authorization]]

\* res.json({ value: response.client_secret.value }), or the catch block when
\* the request failed, the body did not parse, or it has no client_secret
TokenResponse(result) ==
    IF /\ result.event = "end" /\ result.body.json
       /\ "client_secret" \in DOMAIN result.body.object
    THEN [status |-> 200, json |-> [value |-> result.body.object.client_secret.value]]
    ELSE [status |-> 500,
          json |-> [error |-> "Failed to create session token",
                    details |-> TokenErrorMessage(result)]]

\* the request to the provider is sent
TokenBegin(r) ==
    /\ Arrives(r)
    /\ arrived' = arrived + 1
    /\ req' = [req EXCEPT ![r] =
                [MediaRequest("token") EXCEPT !.pc = "awaiting", !.calls = 1,
                                              !.options = TokenOptions(process_env)]]
    /\ UNCHANGED <<now, nextSweep, conversations, heap, last, created, ended, turns,
                   uploads, client, rt>>

\* the promise settles and the route answers
TokenSettle(r, result) ==
    /\ req[r].kind = "token" /\ req[r].pc = "awaiting"
    /\ last' = [req[r] EXCEPT !.pc = "done", !.result = result,
                              !.res = TokenResponse(result)]
    /\ req' = [req EXCEPT ![r] = IdleRequest]
    /\ UNCHANGED <<now, nextSweep, conversations, heap, arrived, created, ended, turns,
                   uploads, client, rt>>

\* ------------------------------------------- GET /api/units, /api/units/:n
\* req.params.unitNumber, character by character
ParamInputs == {<<"1">>, <<"3">>, <<"2", "x">>, <<"a", "b", "c">>}

\* the decimal digits and their values
DigitValue ==
    [c \in {"0", "1", "2", "3", "4", "5", "6", "7", "8", "9"} |->
        CASE c = "0" -> 0 [] c = "1" -> 1 [] c = "2" -> 2 [] c = "3" -> 3 [] c = "4" -> 4
          [] c = "5" -> 5 [] c = "6" -> 6 [] c = "7" -> 7 [] c = "8" -> 8 [] c = "9" -> 9]

\* the value of the longest prefix of digits, after the digits read so far
RECURSIVE parseDigits(_, _)
parseDigits(chars, value) ==
    IF chars = <<>> \/ Head(chars) \notin DOMAIN DigitValue
    THEN value
    ELSE parseDigits(Tail(chars), 10 * value + DigitValue[Head(chars)])

\* parseInt(string): NaN unless the string starts with a digit
parseInt(chars) ==
    IF chars = <<>> \/ Head(chars) \notin DOMAIN DigitValue
    THEN [type |-> "NaN"]
    ELSE Num(parseDigits(chars, 0))

\* unit => ({ unit, title || `Einheit ${unit.unit}`, description || '' })
UnitSummary(unit) ==
    [unit |-> unit.unit,
     title |-> IF "title" \in DOMAIN unit
               THEN Str(<<unit.title>>)
               ELSE Str(<<"Einheit ", ToString(unit.unit)>>),
     description |-> IF "description" \in DOMAIN unit
                     THEN Str(<<unit.description>>)
                     ELSE Str(<<>>)]

\* A handler of one of the two lookups, not yet running.
LookupRequest(kind) ==
    [kind |-> kind, pc |-> "idle",
     unitNumber |-> Undefined, conversationId |-> Undefined, message |-> Undefined,
     messages |-> 0, sent |-> <<>>, calls |-> 0, res |-> NoResponse, params |-> Undefined]

\* GET /api/units: the list of units; the route has no await
Units ==
    /\ arrived < MaxRequests
    /\ arrived' = arrived + 1
    /\ last' = Answered(LookupRequest("units"), 200,
                        IF "units" \notin DOMAIN curriculumData
                        THEN [units |-> <<>>]
                        ELSE [units |-> [i \in DOMAIN curriculumData.units |->
                                           UnitSummary(curriculumData.units[i])]])
    /\ UNCHANGED <<now, nextSweep, conversations, heap, req, created, ended, turns, uploads, client, rt>>

\* GET /api/units/:unitNumber: the unit, or 404; the route has no await
UnitLookup(param) ==
    /\ arrived < MaxRequests
    /\ arrived' = arrived + 1
    /\ LET request == [LookupRequest("unit") EXCEPT !.params = [unitNumber |-> param]]
           found   == findUnit(parseInt(param))
       IN  last' = IF found = <<>>
                   THEN Answered(request, 404, [error |-> "Unit not found"])
                   ELSE Answered(request, 200, found[1])
    /\ UNCHANGED <<now, nextSweep, conversations, heap, req, created, ended, turns, uploads, client, rt>>

LookupNext ==
    \/ Units
    \/ \E param \in ParamInputs : UnitLookup(param)

\* ------------------------------------------- the turn-based client (app.js)
\* what a fetch of the client settles to: a rejection (network error), or a
\* response with its ok flag and the JSON body
FetchOutcomes(bodies) ==
    {[type |-> "rejected"]}
        \cup {[type |-> "response", ok |-> ok, data |-> data] :
                ok \in BOOLEAN, data \in bodies}

\* data.name of a parsed body
Field(data, name) == IF name \in DOMAIN data THEN data[name] ELSE Undefined

\* the bodies POST /api/speech-to-text answers with
SttBodies ==
    {[text |-> text] : text \in Transcriptions}
        \cup {[error |-> "Failed to transcribe audio"]}

\* the bodies POST /api/conversation/message answers with
MessageBodies ==
    {[response |-> aiResponse] : aiResponse \in Replies}
        \cup {[error |-> "Failed to process message"]}

\* transcribeAudio: data.text of an ok response, null otherwise
transcribeAudio(outcome) ==
    IF outcome.type = "rejected" THEN Null
    ELSE IF ~outcome.ok THEN Null
    ELSE Field(outcome.data, "text")

\* sendMessage: data.response of an ok response, null otherwise
sendMessage(outcome) ==
    IF outcome.type = "rejected" THEN Null
    ELSE IF ~outcome.ok THEN Null
    ELSE Field(outcome.data, "response")

\* addMessage(type, text)
addMessage(page, type, text) ==
    [page EXCEPT !.conversationHistory = Append(@, [type |-> type, text |-> text])]

\* fetch(API_BASE + path, ...)
fetch(page, path) == [page EXCEPT !.requests = Append(@, path)]

\* showLoading(show)
showLoading(page, show) == [page EXCEPT !.loading = show]

\* processAudio up to its first await (lines 253-258), run in slot t
processAudio(page, t) ==
    [fetch(showLoading(page, TRUE), "/speech-to-text")
        EXCEPT !.recordings = @ + 1,
               !.turn[t] = [pc |-> "transcribing", transcription |-> Undefined]]

\* mediaRecorder.onstop calls processAudio: lines 253-258, up to the await
ProcessAudioBegin(t) ==
    /\ client.recordings < MaxRecordings
    /\ client.turn[t].pc = "idle"
    /\ \A u \in ClientSlots : u < t => client.turn[u].pc # "idle"
    /\ client' = processAudio(client, t)
    /\ UNCHANGED <<now, nextSweep, conversations, heap, req, last, arrived, created, ended,
                   turns, uploads, rt>>

\* Mutant of TranscribeSettles: the turn goes on whatever transcribeAudio returned.
TranscribeSettles_GoesOn(t, outcome) ==
    /\ client.turn[t].pc = "transcribing"
    /\ LET transcription == transcribeAudio(outcome) IN
       client' = [fetch(addMessage([client EXCEPT !.transcript = transcription],
                                   "user", transcription),
                        "/conversation/message")
                    EXCEPT !.turn[t] = [pc |-> "sending",
                                        transcription |-> transcription]]
    /\ UNCHANGED <<now, nextSweep, conversations, heap, req, last, arrived, created, ended,
                   turns, uploads, rt>>

\* lines 258-274: transcribeAudio has settled; the turn stops, or shows the
\* transcription and sends it
TranscribeSettles(t, outcome) ==
    /\ client.turn[t].pc = "transcribing"
    /\ LET transcription == transcribeAudio(outcome) IN
       IF Falsy(transcription)
       THEN client' = [showLoading(client, FALSE)
                         EXCEPT !.statusText = "No speech detected. Please try again.",
                                !.turn[t] = [pc |-> "idle",
                                             transcription |-> transcription]]
       ELSE client' = [fetch(addMessage([client EXCEPT !.transcript = transcription],
                                        "user", transcription),
                             "/conversation/message")
                         EXCEPT !.turn[t] = [pc |-> "sending",
                                             transcription |-> transcription]]
    /\ UNCHANGED <<now, nextSweep, conversations, heap, req, last, arrived, created, ended,
                   turns, uploads, rt>>

\* lines 274-291: sendMessage has settled; the reply is shown and spoken, or the
\* turn ends
SendSettles(t, outcome) ==
    /\ client.turn[t].pc = "sending"
    /\ LET aiResponse == sendMessage(outcome) IN
       IF ~Falsy(aiResponse)
       THEN client' = [fetch(addMessage(client, "ai", aiResponse), "/text-to-speech")
                         EXCEPT !.turn[t].pc = "speaking"]
       ELSE client' = [showLoading(client, FALSE)
                         EXCEPT !.statusText = "Ready to speak",
                                !.turn[t].pc = "idle"]
    /\ UNCHANGED <<now, nextSweep, conversations, heap, req, last, arrived, created, ended,
                   turns, uploads, rt>>

\* lines 281-291: speakText has settled (the audio ended, or the request failed
\* and speakText caught the error)
SpeakSettles(t) ==
    /\ client.turn[t].pc = "speaking"
    /\ client' = [showLoading(client, FALSE)
                    EXCEPT !.statusText = "Ready to speak",
                           !.turn[t].pc = "idle"]
    /\ UNCHANGED <<now, nextSweep, conversations, heap, req, last, arrived, created, ended,
                   turns, uploads, rt>>

ClientNext ==
    \/ \E t \in ClientSlots : ProcessAudioBegin(t)
    \/ \E t \in ClientSlots, outcome \in FetchOutcomes(SttBodies) : TranscribeSettles(t, outcome)
    \/ \E t \in ClientSlots, outcome \in FetchOutcomes(MessageBodies) : SendSettles(t, outcome)
    \/ \E t \in ClientSlots : SpeakSettles(t)

ClientSpec == Init /\ [][ClientNext]_vars

\* what an awaited browser call or request settles to when only success or
\* failure matters
Settlements == {"fulfilled", "rejected"}

\* ------------------------------- recording in the turn-based client (app.js)
\* lines 199-202: the record button is pressed (mousedown, touchstart);
\* startRecording returns if a recording is on, and asks for the microphone
\* otherwise
TbStartRecordingBegin ==
    /\ client.presses < MaxRecordings
    /\ ~client.held
    /\ client' = IF client.isRecording
                 THEN [client EXCEPT !.presses = @ + 1, !.held = TRUE]
                 ELSE [client EXCEPT !.presses = @ + 1, !.held = TRUE,
                                     !.microphoneRequests = @ + 1]
    /\ UNCHANGED <<now, nextSweep, conversations, heap, req, last, arrived, created, ended,
                   turns, uploads, rt>>

\* lines 202-232: getUserMedia has settled; a recorder is created and started
\* and isRecording is set, or the catch block alerts
TbStartRecordingSettles(outcome) ==
    /\ client.microphoneRequests > 0
    /\ client' = IF outcome = "rejected"
                 THEN [client EXCEPT !.microphoneRequests = @ - 1, !.alerts = @ + 1]
                 ELSE [client EXCEPT !.microphoneRequests = @ - 1,
                                     !.recorders = Append(@, [state |-> "recording",
                                                              processed |-> 0]),
                                     !.mediaRecorder = Obj(Len(client.recorders) + 1),
                                     !.isRecording = TRUE,
                                     !.statusText = "Recording..."]
    /\ UNCHANGED <<now, nextSweep, conversations, heap, req, last, arrived, created, ended,
                   turns, uploads, rt>>

\* stopRecording (lines 238-248): the recorder the page holds is stopped, its
\* stop event is queued
tbStopRecording(page) ==
    IF ~page.isRecording \/ page.mediaRecorder = Null
    THEN page
    ELSE [page EXCEPT !.recorders[page.mediaRecorder.id].state = "stopping",
                      !.isRecording = FALSE,
                      !.statusText = "Processing recording..."]

\* lines 54, 65-68: the record button is released (mouseup, touchend)
TbStopRecording ==
    /\ client.held
    /\ client' = [tbStopRecording(client) EXCEPT !.held = FALSE]
    /\ UNCHANGED <<now, nextSweep, conversations, heap, req, last, arrived, created, ended,
                   turns, uploads, rt>>

\* lines 55-57: the pointer leaves the record button while it is pressed
TbMouseLeave ==
    /\ client.held
    /\ client' = IF client.isRecording
                 THEN [tbStopRecording(client) EXCEPT !.held = FALSE]
                 ELSE [client EXCEPT !.held = FALSE]
    /\ UNCHANGED <<now, nextSweep, conversations, heap, req, last, arrived, created, ended,
                   turns, uploads, rt>>

\* lines 211-217: the stop event of a recorder is handled; onstop calls
\* processAudio with the recorded audio
TbOnStop(id, t) ==
    /\ id \in 1 .. Len(client.recorders)
    /\ client.recorders[id].state = "stopping"
    /\ client.turn[t].pc = "idle"
    /\ \A u \in ClientSlots : u < t => client.turn[u].pc # "idle"
    /\ client' = [processAudio(client, t)
                    EXCEPT !.recorders[id] = [state |-> "inactive",
                                              processed |-> @.processed + 1]]
    /\ UNCHANGED <<now, nextSweep, conversations, heap, req, last, arrived, created, ended,
                   turns, uploads, rt>>

RecorderNext ==
    \/ TbStartRecordingBegin
    \/ \E outcome \in Settlements : TbStartRecordingSettles(outcome)
    \/ TbStopRecording
    \/ TbMouseLeave
    \/ \E id \in 1 .. Len(client.recorders), t \in ClientSlots : TbOnStop(id, t)
    \/ \E t \in ClientSlots, outcome \in FetchOutcomes(SttBodies) : TranscribeSettles(t, outcome)
    \/ \E t \in ClientSlots, outcome \in FetchOutcomes(MessageBodies) : SendSettles(t, outcome)
    \/ \E t \in ClientSlots : SpeakSettles(t)

RecorderSpec == Init /\ [][RecorderNext]_vars

\* ----------------------------------- the real-time client (part_001 265-851)
\* unitNumberInput.value when the start button is clicked
UnitFieldInputs == {<<"1">>, <<"3">>, <<"0">>, <<"1", "0", "5">>, <<>>}

\* currentUnit === 3 || currentUnit < 1 || currentUnit > 104; every comparison
\* with NaN is false
RejectedUnit(currentUnit) ==
    /\ currentUnit.type = "number"
    /\ \/ currentUnit.value = GapUnit
       \/ currentUnit.value < 1
       \/ currentUnit.value > MaxUnit

\* what fetch(`${API_BASE}/units/${currentUnit}`) settles to: a rejection, a
\* response that is not ok, or the unit object the server holds for the number
UnitOutcomes(currentUnit) ==
    {[type |-> "rejected"], [type |-> "response", ok |-> FALSE, data |-> Null]}
        \cup {[type |-> "response", ok |-> TRUE, data |-> unit] :
                unit \in {findUnit(currentUnit)[i] : i \in 1 .. Len(findUnit(currentUnit))}}

\* the button of the visible screen is clicked, pressed or released: the overlay
\* covers the page while it is shown, and only the active screen is displayed
Gesture(screen) ==
    /\ rt.gestures < MaxGestures
    /\ rt.screen = screen
    /\ ~rt.loading

\* Mutant of sendRealtimeEvent: the event is sent whatever the state of the
\* data channel.
sendRealtimeEvent_Unchecked(page, event) ==
    IF page.dataChannel # Null
    THEN [page EXCEPT !.sent = Append(@, [channel |-> page.dataChannel.id] @@ event)]
    ELSE page

\* sendRealtimeEvent(event): sent on the data channel the page holds, if it is open
sendRealtimeEvent(page, event) ==
    IF page.dataChannel # Null /\ page.channels[page.dataChannel.id].readyState = "open"
    THEN [page EXCEPT !.sent = Append(@, [channel |-> page.dataChannel.id] @@ event)]
    ELSE page

\* the catch and finally blocks of startConversation (lines 595-605)
StartCatch(page) ==
    [page EXCEPT !.alerts = @ + 1, !.loading = FALSE, !.start = IdleStart]

\* Mutant of StartConversationBegin: the unit is not checked.
StartConversationBegin_Unchecked(value) ==
    /\ Gesture("unitSelection")
    /\ rt' = [rt EXCEPT !.gestures = @ + 1, !.event = "click start",
                        !.currentUnit = parseInt(value),
                        !.loading = TRUE,
                        !.requests = Append(@, "/api/units"),
                        !.start.pc = "units"]
    /\ UNCHANGED <<now, nextSweep, conversations, heap, req, last, arrived, created, ended,
                   turns, uploads, client>>

\* lines 458-477: the start button is clicked; the unit is checked, the overlay
\* is shown and the unit is requested
StartConversationBegin(value) ==
    /\ Gesture("unitSelection")
    /\ LET currentUnit == parseInt(value) IN
       IF RejectedUnit(currentUnit)
       THEN rt' = [rt EXCEPT !.gestures = @ + 1, !.event = "click start",
                             !.currentUnit = currentUnit,
                             !.alerts = @ + 1]
       ELSE rt' = [rt EXCEPT !.gestures = @ + 1, !.event = "click start",
                             !.currentUnit = currentUnit,
                             !.loading = TRUE,
                             !.requests = Append(@, "/api/units"),
                             !.start.pc = "units"]
    /\ UNCHANGED <<now, nextSweep, conversations, heap, req, last, arrived, created, ended,
                   turns, uploads, client>>

\* lines 477-483: the unit request has settled; the token is requested
StartUnitSettles(outcome) ==
    /\ rt.start.pc = "units"
    /\ rt' = IF outcome.type = "rejected"
             THEN StartCatch(rt)
             ELSE [rt EXCEPT !.start.unitData = IF outcome.ok THEN outcome.data ELSE Null,
                             !.start.pc = "token",
                             !.requests = Append(@, "/token")]
    /\ UNCHANGED <<now, nextSweep, conversations, heap, req, last, arrived, created, ended,
                   turns, uploads, client>>

\* lines 483-507: the token request has settled; the peer connection and the
\* audio element are created and the microphone is requested
StartTokenSettles(outcome, ok) ==
    /\ rt.start.pc = "token"
    /\ rt' = IF outcome = "rejected" \/ ~ok
             THEN StartCatch(rt)
             ELSE [rt EXCEPT !.connections = Append(@, "new"),
                             !.start.pc_ = Obj(Len(rt.connections) + 1),
                             !.audioElement = Obj(Len(rt.connections) + 1),
                             !.start.pc = "media"]
    /\ UNCHANGED <<now, nextSweep, conversations, heap, req, last, arrived, created, ended,
                   turns, uploads, client>>

\* lines 505-518: getUserMedia has settled; the track is muted and added, the
\* data channel is created, both are stored in the page, the offer is requested
StartMediaSettles(outcome) ==
    /\ rt.start.pc = "media"
    /\ rt' = IF outcome = "rejected"
             THEN StartCatch(rt)
             ELSE [rt EXCEPT !.tracks = Append(@, FALSE),
                             !.microphoneTrack = Obj(Len(rt.tracks) + 1),
                             !.channels = Append(@, [readyState |-> "connecting",
                                                     listening |-> FALSE,
                                                     unitData |-> Null]),
                             !.start.dc = Obj(Len(rt.channels) + 1),
                             !.peerConnection = rt.start.pc_,
                             !.dataChannel = Obj(Len(rt.channels) + 1),
                             !.start.pc = "offer"]
    /\ UNCHANGED <<now, nextSweep, conversations, heap, req, last, arrived, created, ended,
                   turns, uploads, client>>

\* lines 518-532: createOffer and setLocalDescription have settled; the offer is
\* posted to the provider
StartOfferSettles(outcome) ==
    /\ rt.start.pc = "offer"
    /\ rt' = IF outcome = "rejected"
             THEN StartCatch(rt)
             ELSE [rt EXCEPT !.requests = Append(@, "/v1/realtime"),
                             !.start.pc = "sdp"]
    /\ UNCHANGED <<now, nextSweep, conversations, heap, req, last, arrived, created, ended,
                   turns, uploads, client>>

\* lines 532-545: the provider has answered the offer; the answer is applied
StartSdpSettles(outcome, ok) ==
    /\ rt.start.pc = "sdp"
    /\ rt' = IF outcome = "rejected" \/ ~ok
             THEN StartCatch(rt)
             ELSE [rt EXCEPT !.start.pc = "answer"]
    /\ UNCHANGED <<now, nextSweep, conversations, heap, req, last, arrived, created, ended,
                   turns, uploads, client>>

\* lines 545-605: setRemoteDescription has settled; the session is active, the
\* listeners are added to the data channel and the conversation screen is shown
StartAnswerSettles(outcome) ==
    /\ rt.start.pc = "answer"
    /\ rt' = IF outcome = "rejected"
             THEN StartCatch(rt)
             ELSE [rt EXCEPT !.isSessionActive = TRUE,
                             !.channels[rt.start.dc.id].listening = TRUE,
                             !.channels[rt.start.dc.id].unitData = rt.start.unitData,
                             !.statusText = "Hold button to speak",
                             !.recordDisabled = FALSE,
                             !.screen = "conversationScreen",
                             !.loading = FALSE,
                             !.start = IdleStart]
    /\ UNCHANGED <<now, nextSweep, conversations, heap, req, last, arrived, created, ended,
                   turns, uploads, client>>

\* lines 551-577: the data channel to which the answer was applied opens; its
\* open listener sends the instructions and asks for the first response
ChannelOpens(c) ==
    /\ c \in 1 .. Len(rt.channels)
    /\ rt.channels[c].readyState = "connecting"
    /\ rt.channels[c].listening
    /\ LET opened == [rt EXCEPT !.channels[c].readyState = "open"]
           systemInstructions == generateSystemInstructions(rt.channels[c].unitData)
       IN rt' = sendRealtimeEvent(
                    sendRealtimeEvent(opened,
                                      [type |-> "session.update", cause |-> 0,
                                       instructions |-> systemInstructions]),
                    [type |-> "response.create", cause |-> 0])
    /\ UNCHANGED <<now, nextSweep, conversations, heap, req, last, arrived, created, ended,
                   turns, uploads, client>>

\* lines 611-635: the end button is clicked
EndConversation ==
    /\ Gesture("conversationScreen")
    /\ ~rt.held
    /\ rt' = [rt EXCEPT
                !.gestures = @ + 1, !.event = "click end",
                !.channels = IF rt.dataChannel = Null THEN @
                             ELSE [@ EXCEPT ![rt.dataChannel.id].readyState = "closed"],
                !.dataChannel = Null,
                !.connections = IF rt.peerConnection = Null THEN @
                                ELSE [@ EXCEPT ![rt.peerConnection.id] = "closed"],
                !.peerConnection = Null,
                !.audioElement = Null,
                !.isSessionActive = FALSE,
                !.recordDisabled = TRUE,
                !.screen = "unitSelection"]
    /\ UNCHANGED <<now, nextSweep, conversations, heap, req, last, arrived, created, ended,
                   turns, uploads, client>>

\* lines 343-353: the record button is pressed (mousedown, touchstart)
RtStartRecording ==
    /\ Gesture("conversationScreen")
    /\ ~rt.recordDisabled /\ ~rt.held
    /\ rt' = IF ~rt.isSessionActive \/ rt.microphoneTrack = Null
             THEN [rt EXCEPT !.gestures = @ + 1, !.event = "mousedown", !.held = TRUE]
             ELSE [rt EXCEPT !.gestures = @ + 1, !.event = "mousedown", !.held = TRUE,
                             !.tracks[rt.microphoneTrack.id] = TRUE,
                             !.statusText = "Recording..."]
    /\ UNCHANGED <<now, nextSweep, conversations, heap, req, last, arrived, created, ended,
                   turns, uploads, client>>

\* stopRecording (lines 358-376): the track is muted, the buffer committed, the
\* flag set
stopRecording(page) ==
    IF ~page.isSessionActive \/ page.microphoneTrack = Null
    THEN page
    ELSE LET muted == [page EXCEPT !.tracks[page.microphoneTrack.id] = FALSE]
             committed == sendRealtimeEvent(muted, [type |-> "input_audio_buffer.commit",
                                                    cause |-> 0])
         IN [committed EXCEPT
               !.inbox = IF Len(committed.sent) > Len(page.sent)
                         THEN Append(@, Len(committed.sent)) ELSE @,
               !.waitingForResponse = TRUE,
               !.statusText = "Processing..."]

\* the record button is released (mouseup, touchend)
RtStopRecording ==
    /\ Gesture("conversationScreen")
    /\ ~rt.recordDisabled /\ rt.held
    /\ rt' = [stopRecording(rt) EXCEPT !.gestures = @ + 1, !.event = "mouseup", !.held = FALSE]
    /\ UNCHANGED <<now, nextSweep, conversations, heap, req, last, arrived, created, ended,
                   turns, uploads, client>>

\* lines 325-327: the pointer leaves the record button while it is pressed; the
\* listener reads isRecording, which this script never declares, and throws a
\* ReferenceError before it calls stopRecording
RtMouseLeave ==
    /\ Gesture("conversationScreen")
    /\ ~rt.recordDisabled /\ rt.held
    /\ rt' = [rt EXCEPT !.gestures = @ + 1, !.event = "mouseleave", !.held = FALSE]
    /\ UNCHANGED <<now, nextSweep, conversations, heap, req, last, arrived, created, ended,
                   turns, uploads, client>>

\* lines 752-768: the provider reports the transcription of the oldest commit
\* not yet reported; the message listener of the open channel handles it
TranscriptionCompleted ==
    /\ rt.inbox # <<>>
    /\ rt.dataChannel # Null
    /\ rt.sent[Head(rt.inbox)].channel = rt.dataChannel.id
    /\ rt.channels[rt.dataChannel.id].readyState = "open"
    /\ LET commit == Head(rt.inbox)
           handled == [rt EXCEPT !.inbox = Tail(@), !.transcribed = @ \cup {commit}]
       IN rt' = IF rt.waitingForResponse
                THEN sendRealtimeEvent([handled EXCEPT !.waitingForResponse = FALSE],
                                       [type |-> "response.create", cause |-> commit])
                ELSE handled
    /\ UNCHANGED <<now, nextSweep, conversations, heap, req, last, arrived, created, ended,
                   turns, uploads, client>>

\* lines 790-793: the provider reports an error for the oldest commit (an empty
\* buffer), or the channel was closed before its transcription was reported
TranscriptionFailed ==
    /\ rt.inbox # <<>>
    /\ rt' = IF /\ rt.dataChannel # Null
                /\ rt.sent[Head(rt.inbox)].channel = rt.dataChannel.id
             THEN [rt EXCEPT !.inbox = Tail(@), !.statusText = "Error occurred"]
             ELSE [rt EXCEPT !.inbox = Tail(@)]
    /\ UNCHANGED <<now, nextSweep, conversations, heap, req, last, arrived, created, ended,
                   turns, uploads, client>>

RealtimeNext ==
    \/ \E value \in UnitFieldInputs : StartConversationBegin(value)
    \/ \E outcome \in UnitOutcomes(rt.currentUnit) : StartUnitSettles(outcome)
    \/ \E outcome \in Settlements, ok \in BOOLEAN : StartTokenSettles(outcome, ok)
    \/ \E outcome \in Settlements : StartMediaSettles(outcome)
    \/ \E outcome \in Settlements : StartOfferSettles(outcome)
    \/ \E outcome \in Settlements, ok \in BOOLEAN : StartSdpSettles(outcome, ok)
    \/ \E outcome \in Settlements : StartAnswerSettles(outcome)
    \/ \E c \in 1 .. Len(rt.channels) : ChannelOpens(c)
    \/ EndConversation
    \/ RtStartRecording
    \/ RtStopRecording
    \/ RtMouseLeave
    \/ TranscriptionCompleted
    \/ TranscriptionFailed

RealtimeSpec == Init /\ [][RealtimeNext]_vars

\* ------------------------------------------------------------ the whole server
MediaNext ==
    \/ \E r \in Slots, file \in FileInputs, renamed \in BOOLEAN : SttBegin(r, file, renamed)
    \/ \E r \in Slots, text \in Transcriptions : SttSucceed(r, text)
    \/ \E r \in Slots : SttFail(r)
    \/ \E r \in Slots, text \in TextInputs : TtsBegin(r, text)
    \/ \E r \in Slots : TtsSucceed(r)
    \/ \E r \in Slots : TtsFail(r)
    \/ \E r \in Slots : TokenBegin(r)
    \/ \E r \in Slots, result \in TokenResults : TokenSettle(r, result)

\* the speech, audio and token routes alone
MediaSpec == Init /\ [][MediaNext]_vars

\* the routes of the conversation service, without the timer
ConversationRoutes ==
    \/ \E r \in Slots, unitNumber \in UnitInputs : StartBegin(r, unitNumber)
    \/ \E r \in Slots, aiResponse \in Replies : StartSucceed(r, aiResponse)
    \/ \E r \in Slots : StartFail(r)
    \/ \E r \in Slots, conversationId \in IdInputs, message \in TextInputs :
          MessageBegin(r, conversationId, message)
    \/ \E r \in Slots, aiResponse \in Replies : MessageSucceed(r, aiResponse)
    \/ \E r \in Slots : MessageFail(r)
    \/ \E conversationId \in IdInputs : End(conversationId)

\* Math.random().toString(36).substr(2, 9) as a value the generator is free to
\* return on any call, a value returned before included
RandomValues == {RandomStream[1], RandomStream[2]}

\* lines 124-144 with the random part of the id drawn freely: of two start
\* requests handled within the same millisecond, both may draw the same value
StartBeginDrawn(r, unitNumber, random) ==
    /\ Arrives(r)
    /\ arrived' = arrived + 1
    /\ IF InvalidUnitNumber(unitNumber)
       THEN /\ last' = Answered([IdleRequest EXCEPT !.kind = "start",
                                                      !.unitNumber = unitNumber],
                                  400, [error |-> "Invalid unit number"])
            /\ UNCHANGED <<req, heap, turns>>
       ELSE /\ heap' = push(heap,
                         <<[role |-> "system", content |-> generateSystemPrompt(unitNumber)]>>)
            /\ turns' = push(turns, 0)
            /\ req' = [req EXCEPT ![r] =
                        [IdleRequest EXCEPT
                            !.kind = "start", !.pc = "awaiting", !.unitNumber = unitNumber,
                            !.conversationId = Str(<<ToString(now), random>>),
                            !.messages = Len(heap) + 1,
                            !.sent = CompletionMessages(heap'[Len(heap) + 1]), !.calls = 1]]
            /\ UNCHANGED last
    /\ UNCHANGED <<now, nextSweep, conversations, created, ended, uploads, client, rt>>

\* the routes of the conversation service and the clock, the random part of
\* every new id being any value of the generator
DrawnNext ==
    \/ \E r \in Slots, unitNumber \in UnitInputs, random \in RandomValues :
          StartBeginDrawn(r, unitNumber, random)
    \/ \E r \in Slots, aiResponse \in Replies : StartSucceed(r, aiResponse)
    \/ \E r \in Slots : StartFail(r)
    \/ \E r \in Slots, conversationId \in IdInputs, message \in TextInputs :
          MessageBegin(r, conversationId, message)
    \/ \E r \in Slots, aiResponse \in Replies : MessageSucceed(r, aiResponse)
    \/ \E r \in Slots : MessageFail(r)
    \/ \E conversationId \in IdInputs : End(conversationId)
    \/ Tick

DrawnSpec == Init /\ [][DrawnNext]_vars

\* the upstream call of the handler in slot r returns or fails, and the
\* handler runs to its end
Resumes(r) ==
    \/ \E aiResponse \in Replies : StartSucceed(r, aiResponse)
    \/ StartFail(r)
    \/ \E aiResponse \in Replies : MessageSucceed(r, aiResponse)
    \/ MessageFail(r)

\* the conversation routes when every upstream call eventually returns or
\* fails: the promise a handler awaits is settled, and Node then resumes it
LiveSpec ==
    /\ Init
    /\ [][ConversationRoutes]_vars
    /\ \A r \in Slots : WF_vars(Resumes(r))

\* every route, at one instant of the clock: the requests of a burst that the
\* timer does not interrupt
RoutesSpec == Init /\ [][ConversationRoutes \/ MediaNext \/ LookupNext]_vars

ServerNext == Next \/ MediaNext \/ LookupNext

\* every route and the timer
ServerSpec == Init /\ [][ServerNext]_vars

\* ================================================================== claims
\* the messages array of a registered session
history(id) == heap[conversations[id].messages]

\* a message request that pushed to the array is suspended on its upstream call
MessageInFlight(array) ==
    \E r \in Slots : req[r].kind = "message" /\ req[r].messages = array

\* in this step the upstream call of a request that holds the array returns a
\* completion, and the request is answered 200
UpstreamReturned(array) ==
    \E r \in Slots :
        /\ req[r].pc = "awaiting" /\ req[r].messages = array
        /\ req'[r].pc = "idle" /\ last'.res.status = 200

\* [system, assistant] followed by (user, assistant) pairs
WellFormedHistory(h) ==
    /\ Len(h) >= 2
    /\ Len(h) % 2 = 0
    /\ \A i \in 1 .. Len(h) :
          h[i].role = IF i = 1 THEN "system"
                      ELSE IF i % 2 = 0 THEN "assistant" ELSE "user"

IsPrefix(a, b) == Len(a) <= Len(b) /\ SubSeq(b, 1, Len(a)) = a

\* 1 <= unitNumber <= max, and not the reserved gap
ValidUnit(unitNumber) ==
    /\ unitNumber.type = "number"
    /\ 1 <= unitNumber.value /\ unitNumber.value <= MaxUnit
    /\ unitNumber.value # GapUnit

\* this step receives a message request, and `request` is its handler after
\* the step: answered at once, or suspended on the upstream call
MessageArrival(request) ==
    /\ arrived' = arrived + 1
    /\ request.kind = "message"
    /\ \/ req' = req /\ request = last'
       \/ \E r \in Slots : req[r].pc = "idle" /\ req'[r] = request

\* the handlers a step may have started or answered
HandlersAfter == {last'} \cup {req'[r] : r \in Slots}

\* C1: after a successful start, a session whose message requests have all
\* been answered has a history of length 2 + 2N, N being the number of its
\* message requests answered 200.
C1_HistoryLength ==
    \A id \in DOMAIN conversations :
        ~MessageInFlight(conversations[id].messages)
            => Len(history(id)) = 2 + 2 * turns[conversations[id].messages]

\* C2: the history of a registered session changes only in a step in which an
\* upstream call returns successfully; a request whose upstream call has not
\* returned, or fails, leaves it as it was.
C2_MutationOnlyAfterUpstream ==
    [][\A id \in DOMAIN conversations :
          heap'[conversations[id].messages] # history(id)
              => UpstreamReturned(conversations[id].messages)]_vars

\* C3: whenever no message request of a registered session is in flight, its
\* history is [system, assistant] followed by (user, assistant) pairs.
C3_Pairs ==
    \A id \in DOMAIN conversations :
        ~MessageInFlight(conversations[id].messages) => WellFormedHistory(history(id))

\* C4: the first message of every registered session is the system prompt
\* composed for its unit, and every step leaves every history a prefix of what
\* it becomes: nothing is removed, changed or inserted.
C4_AppendOnly ==
    /\ [](\A id \in DOMAIN conversations :
            history(id)[1] =
                [role |-> "system",
                 content |-> generateSystemPrompt(conversations[id].unitNumber)])
    /\ [][\A array \in 1 .. Len(heap) : IsPrefix(heap[array], heap'[array])]_vars

\* C4 witness: a registered session has completed a turn.
C4_Witness ==
    \E id \in DOMAIN conversations :
        Len(history(id)) >= 4 /\ turns[conversations[id].messages] >= 1

\* C5: a start request reaches the upstream call only with a unit number in
\* [1, max] other than the gap; with the gap value or a number outside the
\* range it is answered 400 with no upstream call and no session.
C5_GapRejected ==
    /\ \A r \in Slots : req[r].kind = "start" => ValidUnit(req[r].unitNumber)
    /\ last.kind = "start" =>
          IF ValidUnit(last.unitNumber)
          THEN last.res.status \in {200, 500} /\ last.calls = 1
          ELSE last.res.status = 400 /\ last.calls = 0 /\ last.messages = 0

\* C6: a start request whose upstream call does not return a completion is
\* answered 500, and the registry after that step is the registry before it.
C6_FailedStartRegistersNothing ==
    [][\A r \in Slots :
          (req[r].kind = "start" /\ req'[r].pc = "idle" /\ last'.res.status # 200)
              => (last'.res.status = 500 /\ conversations' = conversations)]_vars

\* C6 witness: a start request has been answered 500 after its upstream call.
C6_Witness == last.kind = "start" /\ last.res.status = 500 /\ last.calls = 1

\* C7: the step that answers a start request 200 registers, under an id that
\* was not registered, a session whose history is exactly [system prompt of
\* the unit, assistant opening line], and the message returned is the content
\* of that assistant message.
C7_StartRegisters ==
    [][\A r \in Slots :
          (req[r].kind = "start" /\ req'[r].pc = "idle" /\ last'.res.status = 200)
              => /\ last'.res.json.conversationId \notin DOMAIN conversations
                 /\ last'.res.json.conversationId \in DOMAIN conversations'
                 /\ heap'[conversations'[last'.res.json.conversationId].messages] =
                      <<[role |-> "system",
                         content |-> generateSystemPrompt(req[r].unitNumber)],
                        [role |-> "assistant",
                         content |-> last'.res.json.message]>>]_vars

\* C7 witness: a start request has been answered 200 and its session is
\* registered.
C7_Witness ==
    /\ last.kind = "start" /\ last.res.status = 200
    /\ last.res.json.conversationId \in DOMAIN conversations
    /\ Len(history(last.res.json.conversationId)) = 2

\* C8 as stated: every message request whose id was never returned by a start
\* request, or was carried by an end request already answered, is answered 404,
\* makes no upstream call and changes no session.
C8_UnknownIdIs404 ==
    [][\A request \in HandlersAfter :
          (/\ MessageArrival(request)
           /\ \/ request.conversationId \notin ReturnedIds
              \/ request.conversationId \in DOMAIN ended)
              => /\ request.res.status = 404 /\ request.calls = 0
                 /\ heap' = heap /\ conversations' = conversations]_vars

\* C8 amended: a message request with a non-empty id and a non-empty message
\* whose id was never returned by a start request, or was carried by an end
\* request already answered, is answered 404, makes no upstream call and
\* changes no session.
C8_UnknownIdIs404_Amended ==
    [][\A request \in HandlersAfter :
          (/\ MessageArrival(request)
           /\ ~Falsy(request.conversationId) /\ ~Falsy(request.message)
           /\ \/ request.conversationId \notin ReturnedIds
              \/ request.conversationId \in DOMAIN ended)
              => /\ request.res.status = 404 /\ request.calls = 0
                 /\ heap' = heap /\ conversations' = conversations]_vars

\* C8 witness: a message request for an ended session has been answered 404.
C8_Witness ==
    /\ last.kind = "message" /\ last.res.status = 404
    /\ last.conversationId \in DOMAIN ended

\* C9: every end request is answered {success: true} with status 200, its id
\* is not registered afterwards, and ending any id a second time leaves the
\* registry and the response as after the first time.
C9_EndIdempotent ==
    /\ last.kind = "end" =>
          /\ last.res = [status |-> 200, json |-> [success |-> TRUE]]
          /\ last.conversationId \notin DOMAIN conversations
    /\ \A id \in IdInputs :
          /\ EndRegistry(EndRegistry(conversations, id), id)
                = EndRegistry(conversations, id)
          /\ EndResponse(EndRegistry(conversations, id), id)
                = EndResponse(conversations, id)

\* C9 witness: an end request for an id ended before has been answered.
C9_Witness ==
    /\ last.kind = "end"
    /\ last.conversationId \in DOMAIN ended
    /\ ended[last.conversationId] >= 2

\* C10: a session registered at time T and not ended is in the registry at
\* every time before T + maxAge and is absent at every time after
\* T + maxAge + sweepInterval.
C10_Lifetime ==
    \A id \in DOMAIN created \ DOMAIN ended :
        /\ now < created[id] + maxAge =>
              id \in DOMAIN conversations /\ conversations[id].createdAt = created[id]
        /\ now > created[id] + maxAge + sweepInterval => id \notin DOMAIN conversations

\* C10 witness: a session that was never ended is older than
\* maxAge + sweepInterval.
C10_Witness ==
    \E id \in DOMAIN created \ DOMAIN ended :
        now > created[id] + maxAge + sweepInterval

\* this step is a run of the cleanup callback
SweepStep == nextSweep' # nextSweep

\* C11 as stated: right after a run of the cleanup callback every session in
\* the registry is strictly younger than maxAge at the time the callback read.
C11_SweptStrictlyYounger ==
    [][SweepStep =>
          \A id \in DOMAIN conversations' :
              now - conversations'[id].createdAt < maxAge]_vars

\* C11 amended: right after a run of the cleanup callback every session in the
\* registry is at most maxAge old at the time the callback read; a session of
\* exactly that age stays.
C11_SweptNotOlder ==
    [][SweepStep =>
          \A id \in DOMAIN conversations' :
              now - conversations'[id].createdAt <= maxAge]_vars

\* C11 witness: the callback has just run, it has removed a session, and a
\* session of exactly maxAge is still registered.
C11_Witness ==
    /\ now > 0 /\ nextSweep = now + sweepInterval
    /\ \E id \in DOMAIN conversations : now - conversations[id].createdAt = maxAge
    /\ \E id \in DOMAIN created \ DOMAIN ended : id \notin DOMAIN conversations

\* the session was registered more than maxAge ago
Stale(id) == id \in DOMAIN created /\ now - created[id] > maxAge

\* C12: a message request for a registered session older than maxAge is
\* served like any other: on arrival the user message is pushed and the
\* upstream call is issued, and when the call returns the request is answered
\* 200 with the reply, which is pushed to the history; it is never answered 404.
C12_StaleSessionServed ==
    [][/\ \A request \in HandlersAfter :
             (/\ MessageArrival(request)
              /\ ~Falsy(request.conversationId) /\ ~Falsy(request.message)
              /\ request.conversationId \in DOMAIN conversations
              /\ Stale(request.conversationId))
                 => /\ request.pc = "awaiting" /\ request.calls = 1
                    /\ heap'[request.messages] =
                         Append(history(request.conversationId),
                                [role |-> "user", content |-> request.message])
       /\ \A r \in Slots :
             (/\ req[r].kind = "message" /\ req[r].pc = "awaiting"
              /\ Stale(req[r].conversationId)
              /\ req'[r].pc = "idle")
                 => /\ last'.res.status \in {200, 500}
                    /\ last'.res.status = 200 =>
                          heap'[req[r].messages] =
                              Append(heap[req[r].messages],
                                     [role |-> "assistant",
                                      content |-> last'.res.json.response])]_vars

\* C12 witness: a message request is in flight for a session that is still
\* registered and was already older than maxAge when the request arrived (the
\* clock stands still while a request is in flight).
C12_Witness ==
    \E r \in Slots :
        /\ req[r].kind = "message" /\ req[r].pc = "awaiting"
        /\ req[r].conversationId \in DOMAIN conversations
        /\ Stale(req[r].conversationId)

\* C13: no step changes the createdAt of a session that stays registered, and
\* a run of the cleanup callback removes every session older than maxAge,
\* whatever message requests it has served or is serving.
C13_CreatedAtFixed ==
    [][/\ \A id \in DOMAIN conversations \cap DOMAIN conversations' :
             /\ conversations'[id].createdAt = conversations[id].createdAt
             /\ conversations[id].createdAt = created[id]
       /\ SweepStep =>
             \A id \in DOMAIN conversations :
                 now - created[id] > maxAge => id \notin DOMAIN conversations']_vars

\* C13 witness: a session that has answered a message request with a reply,
\* and was not ended, has been removed by the cleanup callback.
C13_Witness ==
    /\ last.kind = "message" /\ last.res.status = 200
    /\ last.conversationId \in DOMAIN created \ DOMAIN ended
    /\ last.conversationId \notin DOMAIN conversations
    /\ \A r \in Slots : req[r].pc = "idle"

\* C14: a speech-to-text request whose upstream transcription is the empty
\* text is not answered 200: no success response carries the empty string.
C14_EmptyTranscriptFails ==
    (last.kind = "stt" /\ last.res.status = 200) => last.res.json.text # Str(<<>>)

\* a speech-to-text handler suspended on its upstream call
SttInFlight(r) == req[r].kind = "stt" /\ req[r].pc = "awaiting"

\* C15: once a speech-to-text request that carried a file is answered, with
\* the text or with the failure, neither the stored upload nor the renamed
\* file is in the uploads directory: the directory holds only the files of
\* the requests still in flight. The route without the rename removes the
\* stored upload in the same two places.
C15_NoScratchFileLeft ==
    /\ (last.kind = "stt" /\ last.file # Undefined) =>
          /\ last.file.path \notin uploads
          /\ RenamedPath(last.file.path) \notin uploads
    /\ \A path \in uploads :
          \E r \in Slots : SttInFlight(r) /\ path = RenamedPath(req[r].file.path)
    /\ \A r \in Slots :
          SttInFlight(r) =>
              LET file   == req[r].file
                  stored == renameSync(uploads, RenamedPath(file.path), file.path)
              IN  /\ file.path \notin ServerSttCleanup(stored, file)
                  /\ file.path \notin ServerSttCatchCleanup(stored, file)

\* C15 witness: a request with a file has been answered with the
\* transcription failure while another upload is still being transcribed.
C15_Witness ==
    /\ last.kind = "stt" /\ last.file # Undefined
    /\ last.res.status = 500 /\ last.calls = 1
    /\ \E r \in Slots : SttInFlight(r)

\* a 2xx status
SuccessStatus(statusCode) == 200 <= statusCode /\ statusCode < 300

\* C16: a token request is answered 500 whenever the upstream request fails
\* or its response has a status that is not a success, and is answered
\* {value} only for a successful upstream response, value being the client
\* secret of that response.
C16_TokenFollowsStatus ==
    last.kind = "token" =>
        /\ (\/ last.result.event = "error"
            \/ ~SuccessStatus(last.result.statusCode)) => last.res.status = 500
        /\ last.res.status = 200 =>
              /\ last.result.event = "end" /\ SuccessStatus(last.result.statusCode)
              /\ last.res.json.value = last.result.body.object.client_secret.value

\* the tokens of every string a response carries, in its JSON body or in the
\* text its audio speaks
ResponseTokens(res) ==
    IF "send" \in DOMAIN res
    THEN {res.send.of[i] : i \in DOMAIN res.send.of}
    ELSE IF "json" \notin DOMAIN res
    THEN {}
    ELSE UNION {IF field = "error" THEN {res.json[field]}
                ELSE IF field \in {"success", "unit"} THEN {}
                ELSE IF field \in {"vocabulary", "phrases", "grammar", "communicative_goals"}
                THEN {res.json[field][i] : i \in DOMAIN res.json[field]}
                ELSE IF field = "units"
                THEN UNION {{res.json.units[u].title.value[i] :
                                i \in DOMAIN res.json.units[u].title.value}
                            \cup {res.json.units[u].description.value[i] :
                                i \in DOMAIN res.json.units[u].description.value}
                                : u \in DOMAIN res.json.units}
                ELSE {res.json[field].value[i] : i \in DOMAIN res.json[field].value}
                    : field \in DOMAIN res.json}

\* C17: no response of any route carries the value of OPENAI_API_KEY, and the
\* response of the token route is a function of the upstream result alone,
\* free of the key for every result; the key is only sent to the provider.
C17_KeyNotInResponses ==
    /\ process_env.OPENAI_API_KEY \notin ResponseTokens(last.res)
    /\ \A result \in TokenResults :
          process_env.OPENAI_API_KEY \notin ResponseTokens(TokenResponse(result))

\* C17 witness: a token request that sent the key to the provider has been
\* answered with the error and its details.
C17_Witness ==
    /\ last.kind = "token" /\ last.res.status = 500
    /\ "details" \in DOMAIN last.res.json
    /\ \E i \in DOMAIN last.options.headers.Authorization.value :
          last.options.headers.Authorization.value[i] = process_env.OPENAI_API_KEY

\* the arguments the composers are applied to: unit numbers in and around the
\* curriculum, the gap, the largest unit, no number, and a number as a string
ComposerInputs ==
    {Num(n) : n \in 0 .. 4} \cup {Num(MaxUnit), Undefined, Str(<<"1">>)}

\* the tokens of a composed text
Tokens(text) == {text.value[i] : i \in DOMAIN text.value}

\* every vocabulary entry and every phrase of the unit is in the text
ContainsUnit(text, unit) ==
    /\ \A i \in DOMAIN unit.vocabulary : unit.vocabulary[i] \in Tokens(text)
    /\ \A i \in DOMAIN unit.phrases : unit.phrases[i] \in Tokens(text)

\* the unit numbers as they are written into a text
UnitNumerals == {ToString(n) : n \in 0 .. MaxUnit + 1}

\* the text is not empty and carries no unit number
FallbackText(text) ==
    /\ text.value # <<>>
    /\ \A token \in Tokens(text) : token # ""
    /\ Tokens(text) \cap UnitNumerals = {}

\* the composers applied to every unit of the curriculum and to every
\* argument that matches none
ComposedTexts ==
    /\ \A i \in DOMAIN curriculumData.units :
          LET unit == curriculumData.units[i] IN
          /\ ContainsUnit(generateSystemPrompt(Num(unit.unit)), unit)
          /\ ~FallbackText(generateSystemPrompt(Num(unit.unit)))
          /\ ContainsUnit(generateSystemInstructions(unit), unit)
    /\ \A input \in ComposerInputs :
          findUnit(input) = <<>> => FallbackText(generateSystemPrompt(input))
    /\ FallbackText(generateSystemInstructions(Undefined))

\* C18: for every unit of the curriculum the composed text contains every
\* vocabulary entry and every phrase of the unit; for an argument that
\* matches no unit the composer returns a non-empty fallback that names no
\* unit; the system prompt of every registered session is such a text; and
\* the step that composes a prompt changes no session and no earlier history.
C18_ComposerContains ==
    /\ [](/\ ComposedTexts
          /\ \A id \in DOMAIN conversations :
               LET found == findUnit(conversations[id].unitNumber) IN
               IF found = <<>>
               THEN FallbackText(history(id)[1].content)
               ELSE ContainsUnit(history(id)[1].content, found[1]))
    /\ [][\A r \in Slots :
             (req[r].pc = "idle" /\ req'[r].kind = "start" /\ req'[r].pc = "awaiting")
                 => /\ conversations' = conversations
                    /\ SubSeq(heap', 1, Len(heap)) = heap
                    /\ heap'[Len(heap')] =
                         <<[role |-> "system",
                            content |-> generateSystemPrompt(req'[r].unitNumber)]>>]_vars

\* C18 witness: a session for a unit of the curriculum and a session for a
\* unit the curriculum does not have are registered.
C18_Witness ==
    \E a, b \in DOMAIN conversations :
        /\ findUnit(conversations[a].unitNumber) # <<>>
        /\ findUnit(conversations[b].unitNumber) = <<>>

\* the session ids of the requests that arrive, resume or are answered in
\* this step
Subjects ==
    {req[r].conversationId : r \in {q \in Slots : req'[q] # req[q]}}
        \cup {req'[r].conversationId : r \in {q \in Slots : req'[q] # req[q]}}
        \cup (IF arrived' # arrived /\ req' = req THEN {last'.conversationId} ELSE {})

\* C19: a step of a start, message or end request leaves every registered
\* session other than the one the request names as it was: still registered,
\* with the same unit, the same createdAt and the same history.
C19_SessionsIndependent ==
    [][~SweepStep =>
          \A id \in DOMAIN conversations :
              id \notin Subjects =>
                  /\ id \in DOMAIN conversations'
                  /\ conversations'[id] = conversations[id]
                  /\ heap'[conversations'[id].messages] = history(id)]_vars

\* C19 witness: two sessions are registered, one has completed a turn and the
\* other still has exactly its two opening messages.
C19_Witness ==
    \E a, b \in DOMAIN conversations :
        /\ a # b
        /\ last.kind = "message" /\ last.res.status = 200 /\ last.conversationId = a
        /\ Len(history(a)) = 4
        /\ Len(history(b)) = 2

\* C20: no request of any route issues more than one upstream call, and the
\* step in which the call of a suspended request returns or fails answers the
\* request, with 200 or with 500, after that one call.
C20_NoRetry ==
    /\ [](\A request \in {last} \cup {req[r] : r \in Slots} : request.calls <= 1)
    /\ [][\A r \in Slots :
             (req[r].pc = "awaiting" /\ req'[r] # req[r])
                 => /\ req'[r].pc = "idle"
                    /\ last'.kind = req[r].kind /\ last'.pc = "done"
                    /\ last'.calls = 1
                    /\ last'.res.status \in {200, 500}]_vars

\* C20 witness: an audio or token request has been answered 500 after its one
\* upstream call, while a start request is waiting for its own.
C20_Witness ==
    /\ last.kind \in {"stt", "tts", "token"}
    /\ last.res.status = 500 /\ last.calls = 1
    /\ \E r \in Slots : req[r].kind = "start" /\ req[r].pc = "awaiting"

\* the routes that are not part of a conversation
AuxiliaryKinds == {"stt", "tts", "token", "units", "unit"}

\* this step receives, resumes or answers a request of one of those routes
AuxiliaryStep ==
    \/ \E r \in Slots :
          /\ req'[r] # req[r]
          /\ req[r].kind \in AuxiliaryKinds \/ req'[r].kind \in AuxiliaryKinds
    \/ arrived' # arrived /\ req' = req /\ last'.kind \in AuxiliaryKinds

\* C21: a step of the speech-to-text, text-to-speech or token route or of a
\* unit lookup, whether the request is rejected, suspended, answered with its
\* result or answered with the failure, leaves the registry and every history
\* as they were.
C21_AuxiliaryRoutesLeaveRegistry ==
    [][AuxiliaryStep => (conversations' = conversations /\ heap' = heap)]_vars

\* C21 witness: a text-to-speech request has failed while a session with a
\* completed turn is registered.
C21_Witness ==
    /\ last.kind = "tts" /\ last.res.status = 500
    /\ \E id \in DOMAIN conversations : Len(history(id)) = 4

\* C22: a start, message or end request is answered in the step in which it
\* arrives (validation error, registry miss, end) or is suspended on its one
\* upstream call; the step in which that call returns or fails answers it,
\* with the result or with 500 and a message, and frees its handler; and every
\* suspended request is eventually answered. No request is answered twice,
\* since an answered request has no handler left.
C22_EveryRequestAnswered ==
    /\ [][arrived' # arrived =>
             \/ /\ req' = req
                /\ last'.pc = "done"
                /\ last'.res.status \in {200, 400, 404}
                /\ last'.res.status # 200 => "error" \in DOMAIN last'.res.json
             \/ /\ last' = last
                /\ \E r \in Slots :
                      /\ req[r].pc = "idle" /\ req'[r].pc = "awaiting"
                      /\ \A q \in Slots \ {r} : req'[q] = req[q]]_vars
    /\ [][\A r \in Slots :
             (req[r].pc = "awaiting" /\ req'[r] # req[r])
                 => /\ req'[r] = IdleRequest
                    /\ last'.pc = "done" /\ last'.kind = req[r].kind
                    /\ last'.conversationId = req[r].conversationId
                    /\ last'.res.status \in {200, 500}
                    /\ last'.res.status = 500 => "error" \in DOMAIN last'.res.json]_vars
    /\ \A r \in Slots : (req[r].pc = "awaiting") ~> (req[r].pc = "idle")

\* C22 witness: a message request that was suspended has been answered 500,
\* and no request is waiting.
C22_Witness ==
    /\ last.kind = "message" /\ last.calls = 1 /\ last.res.status = 500
    /\ \A r \in Slots : req[r].pc = "idle"

\* the time the cleanup callback ran last; 0 while it has not run
LastSweep == nextSweep - sweepInterval

\* the callback has run since the session became older than maxAge
Swept(id) == LastSweep > 0 /\ LastSweep - created[id] > maxAge

\* C23: the registry holds exactly the sessions that a successful start
\* registered and that no end request has named and no run of the cleanup
\* callback has found older than maxAge; a key appears only in the step that
\* answers its start request 200, and disappears only in an end request for
\* it or in a run of the callback.
C23_RegistryExact ==
    /\ [](/\ DOMAIN conversations \subseteq DOMAIN created
          /\ \A id \in DOMAIN created :
                id \in DOMAIN conversations <=> (id \notin DOMAIN ended /\ ~Swept(id)))
    /\ [][/\ \A id \in DOMAIN conversations' \ DOMAIN conversations :
                \E r \in Slots :
                    /\ req[r].kind = "start" /\ req[r].pc = "awaiting"
                    /\ req[r].conversationId = id
                    /\ req'[r].pc = "idle"
                    /\ last'.res.status = 200 /\ last'.res.json.conversationId = id
          /\ \A id \in DOMAIN conversations \ DOMAIN conversations' :
                \/ SweepStep
                \/ /\ arrived' # arrived
                   /\ last'.kind = "end" /\ last'.conversationId = id]_vars

\* C23 witness: after a run of the callback one session is still registered,
\* a second one has been removed by the callback, and the last request
\* answered was an end request.
C23_Witness ==
    /\ LastSweep > 0
    /\ last.kind = "end"
    /\ \E a \in DOMAIN conversations, b \in DOMAIN created \ DOMAIN ended : Swept(b)

\* C24: a run of the cleanup callback removes exactly the sessions for which
\* the clock value it reads minus createdAt is greater than maxAge, and the
\* sessions it keeps have the same registry entry (createdAt and messages
\* array) and the same history as before.
C24_SweepRemovesExactlyExpired ==
    [][SweepStep =>
         /\ DOMAIN conversations' =
               {id \in DOMAIN conversations : ~(now - conversations[id].createdAt > maxAge)}
         /\ \A id \in DOMAIN conversations' :
               /\ conversations'[id] = conversations[id]
               /\ conversations'[id].createdAt = created[id]
               /\ heap'[conversations'[id].messages] = heap[conversations[id].messages]]_vars

\* C24 witness: the callback has just run; it removed one session and kept a
\* younger one that already holds a reply.
C24_Witness ==
    /\ now = LastSweep
    /\ \E id \in DOMAIN created : id \notin DOMAIN conversations /\ Swept(id)
    /\ \E id \in DOMAIN conversations :
          /\ now - conversations[id].createdAt > 0
          /\ Len(history(id)) >= 3

\* the session was registered once and is registered no longer
Removed(id) == id \in DOMAIN created /\ id \notin DOMAIN conversations

OwnUserIndex(request) == Len(request.sent)

\* C26: when message requests on one session overlap, the reply a request
\* returns is stored at the position right after that request's own user
\* message, and the history a request sends upstream contains no user message
\* of another request of that session whose upstream call is still pending.
C26_OverlapIsolated ==
    /\ [][\A r \in Slots :
             (/\ req[r].kind = "message" /\ req[r].pc = "awaiting"
              /\ req'[r].pc = "idle" /\ last'.res.status = 200)
                 => /\ Len(heap'[req[r].messages]) > OwnUserIndex(req[r])
                    /\ heap'[req[r].messages][OwnUserIndex(req[r]) + 1]
                          = [role |-> "assistant", content |-> last'.res.json.response]]_vars
    /\ [][\A r, q \in Slots :
             (/\ r # q
              /\ req[r].pc = "idle"
              /\ req'[r].kind = "message" /\ req'[r].pc = "awaiting"
              /\ req[q].kind = "message" /\ req[q].pc = "awaiting"
              /\ req[q].messages = req'[r].messages)
                 => \A i \in 1 .. Len(req'[r].sent) : i # OwnUserIndex(req[q])]_vars

\* C27: the upstream call of a message request is given the whole history of
\* the session as it was when the request arrived, followed by the request's
\* user message: it starts with the system prompt composed for the session's
\* unit, ends with that user message, and drops nothing in between.
C27_FullHistorySent ==
    [][\A r \in Slots :
          (/\ arrived' = arrived + 1
           /\ req[r].pc = "idle"
           /\ req'[r].kind = "message" /\ req'[r].pc = "awaiting")
              => LET id == req'[r].conversationId
                     userMessage == [role |-> "user", content |-> req'[r].message]
                 IN /\ req'[r].sent = history(id) \o <<userMessage>>
                    /\ req'[r].sent = heap'[req'[r].messages]
                    /\ req'[r].sent[1] =
                          [role |-> "system",
                           content |-> generateSystemPrompt(conversations[id].unitNumber)]
                    /\ req'[r].sent[Len(req'[r].sent)] = userMessage]_vars

\* C27 witness: the upstream call of a session's second turn is pending and
\* was given five messages, the system prompt first.
C27_Witness ==
    \E r \in Slots :
        /\ req[r].kind = "message" /\ req[r].pc = "awaiting"
        /\ Len(req[r].sent) = 5
        /\ req[r].sent[1].role = "system" /\ req[r].sent[3].role = "user"
        /\ req[r].sent[4].role = "assistant"

\* C28: a message request whose conversationId or message is missing or empty
\* is answered 400 at once, whether or not its id is registered: no handler is
\* suspended on an upstream call, and the registry and every messages array
\* stay as they are.
C28_InvalidMessageIs400 ==
    [][\A request \in HandlersAfter :
          (/\ MessageArrival(request)
           /\ Falsy(request.conversationId) \/ Falsy(request.message))
              => /\ request = last' /\ req' = req
                 /\ request.res = [status |-> 400,
                                   json |-> [error |-> "Missing conversationId or message"]]
                 /\ request.calls = 0 /\ request.sent = <<>>
                 /\ heap' = heap /\ conversations' = conversations]_vars

\* C28 witness: a message request that names an unregistered id and carries an
\* empty message has been answered 400 while a session is registered.
C28_Witness ==
    /\ last.kind = "message" /\ last.res.status = 400
    /\ last.conversationId = UnknownId
    /\ last.message = Str(<<>>)
    /\ DOMAIN conversations # {}

\* C29: the id returned by a successful start request has been returned by no
\* earlier one and is not registered when the session is stored, so that
\* storing a session replaces no entry of the registry.
C29_IdsUnique ==
    [][\A r \in Slots :
          (/\ req[r].kind = "start" /\ req[r].pc = "awaiting"
           /\ req'[r].pc = "idle" /\ last'.res.status = 200)
              => /\ last'.res.json.conversationId \notin ReturnedIds
                 /\ last'.res.json.conversationId \notin DOMAIN conversations
                 /\ \A id \in DOMAIN conversations : conversations'[id] = conversations[id]]_vars

\* C30: when transcribeAudio gives a call of processAudio nothing (null after
\* a failed request, or a missing or empty text), the call ends in that step:
\* it fetches nothing more, so no message request is sent for the turn, the
\* conversation history is left as it is, and the loading overlay is hidden.
C30_FailedTranscriptionStopsTurn ==
    [][\A t \in ClientSlots :
          (/\ client.turn[t].pc = "transcribing"
           /\ client'.turn[t] # client.turn[t]
           /\ Falsy(client'.turn[t].transcription))
              => /\ client'.turn[t].pc = "idle"
                 /\ client'.requests = client.requests
                 /\ client'.conversationHistory = client.conversationHistory
                 /\ ~client'.loading]_vars

\* C30 witness: after a turn that was shown and answered, a turn whose
\* transcription request failed has ended: two recordings, one message request,
\* two messages shown, overlay hidden.
C30_Witness ==
    /\ client.recordings = 2
    /\ \E t \in ClientSlots :
          client.turn[t].pc = "idle" /\ client.turn[t].transcription = Null
    /\ \A t \in ClientSlots : client.turn[t].pc = "idle"
    /\ client.statusText = "No speech detected. Please try again."
    /\ client.requests =
          <<"/speech-to-text", "/conversation/message", "/text-to-speech", "/speech-to-text">>
    /\ Len(client.conversationHistory) = 2
    /\ ~client.loading

\* this step is a click on the start button of the real-time client
StartClicked == rt'.gestures = rt.gestures + 1 /\ rt'.event = "click start"

\* C31: a click on the start button of the real-time client with unit 3, or
\* with a unit below 1 or above 104, ends in the same step: nothing is
\* requested (no unit, no token, no offer), no peer connection, data channel
\* or track is created, the overlay stays hidden and the session is inactive.
C31_RejectedUnitStartsNothing ==
    [][(StartClicked /\ RejectedUnit(rt'.currentUnit))
          => /\ rt'.requests = rt.requests
             /\ rt'.connections = rt.connections
             /\ rt'.channels = rt.channels /\ rt'.tracks = rt.tracks
             /\ rt'.peerConnection = rt.peerConnection
             /\ rt'.dataChannel = rt.dataChannel
             /\ rt'.start = IdleStart /\ ~rt'.loading
             /\ ~rt'.isSessionActive /\ rt'.screen = "unitSelection"]_vars

\* C31 witness: after a session was started and ended, a click with unit 3 has
\* been turned down: the fetches are those of the one session.
C31_Witness ==
    /\ rt.currentUnit = Num(GapUnit)
    /\ rt.gestures = 3
    /\ rt.requests = <<"/api/units", "/token", "/v1/realtime">>
    /\ rt.start = IdleStart /\ ~rt.loading /\ ~rt.isSessionActive
    /\ rt.peerConnection = Null

\* the positions in rt.sent of the events of one type sent on one channel
SentOn(page, c, type) ==
    {i \in 1 .. Len(page.sent) : page.sent[i].channel = c /\ page.sent[i].type = type}

\* C32: on every data channel the instructions (session.update) are sent at
\* most once, and exactly once on a channel that is open; the step in which a
\* channel opens sends session.update and then response.create on it; every
\* response.create follows the session.update of its channel; and every event
\* sent in a step goes to a channel that is open.
C32_InstructionsOnceOnOpen ==
    /\ [](\A c \in 1 .. Len(rt.channels) :
            /\ Cardinality(SentOn(rt, c, "session.update")) <= 1
            /\ rt.channels[c].readyState = "open"
                  => Cardinality(SentOn(rt, c, "session.update")) = 1
            /\ \A i \in SentOn(rt, c, "response.create") :
                  \E j \in SentOn(rt, c, "session.update") : j < i)
    /\ [][\A c \in 1 .. Len(rt.channels) :
             (rt.channels[c].readyState = "connecting"
                 /\ rt'.channels[c].readyState = "open")
                => /\ Len(rt'.sent) = Len(rt.sent) + 2
                   /\ rt'.sent[Len(rt.sent) + 1].type = "session.update"
                   /\ rt'.sent[Len(rt.sent) + 1].channel = c
                   /\ rt'.sent[Len(rt.sent) + 1].instructions
                         = generateSystemInstructions(rt.channels[c].unitData)
                   /\ rt'.sent[Len(rt.sent) + 2].type = "response.create"
                   /\ rt'.sent[Len(rt.sent) + 2].channel = c]_vars
    /\ [][/\ Len(rt'.sent) >= Len(rt.sent)
          /\ \A i \in 1 .. Len(rt.sent) : rt'.sent[i] = rt.sent[i]
          /\ \A i \in Len(rt.sent) + 1 .. Len(rt'.sent) :
                /\ rt'.dataChannel = Obj(rt'.sent[i].channel)
                /\ rt'.channels[rt'.sent[i].channel].readyState = "open"]_vars

\* C32 witness: a session whose unit was found sent its instructions, the first
\* response.create, a commit and the response.create for it, in this order.
C32_Witness ==
    /\ Len(rt.sent) = 4
    /\ rt.sent[1].type = "session.update"
    /\ rt.sent[1].instructions # generateSystemInstructions(Null)
    /\ rt.sent[2].type = "response.create" /\ rt.sent[2].cause = 0
    /\ rt.sent[3].type = "input_audio_buffer.commit"
    /\ rt.sent[4].type = "response.create" /\ rt.sent[4].cause = 3
    /\ \A i \in 1 .. 4 : rt.sent[i].channel = 1

\* the response.create events sent because the transcription of a commit was
\* reported
ResponsesFor(page, commit) ==
    {i \in 1 .. Len(page.sent) :
        page.sent[i].type = "response.create" /\ page.sent[i].cause = commit}

\* in this step the record button is released while a session is active
ReleasedInSession ==
    /\ rt'.gestures = rt.gestures + 1 /\ rt'.event = "mouseup"
    /\ rt.isSessionActive

\* C33: every release of the record button during an active session sends
\* input_audio_buffer.commit; every commit whose transcription has been
\* reported has exactly one response.create sent on that report; and a report
\* that arrives while waitingForResponse is false sends nothing.
C33_OneResponsePerRelease ==
    /\ [][ReleasedInSession
             => /\ Len(rt'.sent) = Len(rt.sent) + 1
                /\ rt'.sent[Len(rt'.sent)].type = "input_audio_buffer.commit"]_vars
    /\ [](\A commit \in rt.transcribed : Cardinality(ResponsesFor(rt, commit)) = 1)
    /\ [][(rt'.transcribed # rt.transcribed /\ ~rt.waitingForResponse)
             => rt'.sent = rt.sent]_vars

\* C34: in the turn-based client a recorder is recording only while the record
\* button is pressed, and the audio of every recorder that has stopped is
\* handed to processAudio once, never twice.
C34_RecordsOnlyWhileHeld ==
    \A id \in 1 .. Len(client.recorders) :
        /\ client.recorders[id].state = "recording" => client.held
        /\ client.recorders[id].processed <= 1
        /\ client.recorders[id].state = "inactive" => client.recorders[id].processed = 1

\* C35: in the real-time client a microphone track is enabled only while the
\* record button is pressed in an active session: a new track starts disabled,
\* and after a release, after the pointer has left the button and after
\* endConversation no track is enabled.
C35_TrackEnabledOnlyWhileHeld ==
    /\ [](\A id \in 1 .. Len(rt.tracks) :
            rt.tracks[id] => rt.held /\ rt.isSessionActive)
    /\ [][Len(rt'.tracks) > Len(rt.tracks) => ~rt'.tracks[Len(rt'.tracks)]]_vars
    /\ [][(rt'.gestures # rt.gestures
              /\ rt'.event \in {"mouseup", "mouseleave", "click end"})
             => \A id \in 1 .. Len(rt'.tracks) : ~rt'.tracks[id]]_vars

\* a step in which a pending startConversation reaches its catch block
StartFails ==
    /\ rt.start.pc # "idle"
    /\ rt'.start.pc = "idle"
    /\ rt'.alerts = rt.alerts + 1

\* C36: in the real-time client, a startConversation that fails at any of its
\* steps leaves the session inactive, no peer connection and no data channel
\* held by the page, the selection screen shown and the loading overlay hidden.
C36_FailedStartLeavesNothing ==
    [][StartFails =>
         /\ ~rt'.isSessionActive
         /\ rt'.peerConnection = Null
         /\ rt'.dataChannel = Null
         /\ rt'.screen = "unitSelection"
         /\ ~rt'.loading]_vars

====
